---------------------------- MODULE Spec2Model ----------------------------
(***************************************************************************)
(* A model of the IDO data extractor front end: the credential encryption  *)
(* wrapper and the places that persist credentials, the token-caching API  *)
(* client, the row-level-security policies of the hosted database, the     *)
(* database-backed job service, the job runner with its execution history, *)
(* the export service and the admin panel.                                 *)
(*                                                                         *)
(* Every subsystem has its own next-state relation over its own variables; *)
(* Init is the state after construction and after the shipped migrations   *)
(* have run.                                                               *)
(***************************************************************************)
EXTENDS Integers, Sequences, FiniteSets, TLC

VARIABLES
    \* --- EncryptionService calls (pure-function harness) ---
    encArgs,            \* the last encrypt call: [called, data, password]
    encOut,             \* what that call returned: [encrypted, salt, iv] hex strings
    decArgs,            \* the last decrypt call on encOut: [called, password]
    decOut,             \* what that call returned: [ok |-> TRUE, data] or [ok |-> FALSE]
    \* --- persisted credentials ---
    lsCredentials,      \* localStorage["ido_encrypted_credentials"]: [present, value]
    user_configurations,\* rows of public.user_configurations
    api_configs,        \* rows of api_configs
    \* --- the configuration modal and the auth session ---
    session,            \* the user the Supabase client is signed in as
    config,             \* the modal's form: [password, encryption_password]
    savePc,             \* validateAndSave: [at |-> "idle"] or [at |-> "lookup", user]
    showDuplicateDialog,
    dupExisting,        \* history: the existingConfig the last save reported
    useExisting,        \* history: the last handleUseDuplicateConfig run
    toast,              \* title of the last toast
    \* --- ApiService ---
    token,              \* ApiService.token: [set |-> FALSE] or [set |-> TRUE, value]
    calls,              \* the getAuthHeaders calls in flight or returned, by caller
    firstAuth,          \* history: the Authorization the first successful call returned
    \* --- the database behind row-level security ---
    db,                 \* table name -> set of rows
    now,                \* NOW()
    lastOp,             \* history: the last client statement and what it read or wrote
    lastToggle,         \* history: the last toggleUserStatus call
    publicConfigs,      \* history: the last getPublicConfigs call and its result
    \* --- DatabaseJobService ---
    jobs,               \* rows of public.jobs
    nextId,             \* rows inserted so far: the next id and created_at
    savedJobs,          \* history: user -> job_name -> the body last saved, if not deleted
    lastGetJobs,        \* history: the last getJobs call and its result
    \* --- running a job ---
    runPc,              \* handleRunJob: "idle" or "loading"
    execution_history,  \* rows of execution_history, in insertion order
    runLog,             \* history: one entry per load request sent, with its outcome
    downloads,          \* link.click() calls so far
    lastExport,         \* history: the last ExportService.exportData call
    runToast,           \* title of the last toast of the job page
    \* --- ApiService: the cache of distinct values ---
    cache,              \* ApiService.cache: key -> [data, expiry]
    ido_api_cache,      \* localStorage["ido_api_cache"]: [present, text]
    dateNow,            \* Date.now()
    inFlight,           \* the load request getDistinctValues is awaiting
    requests,           \* load requests sent for distinct values so far
    distinctRet,        \* history: the last call on the cache and what it returned
    \* --- FilterUtils calls (pure-function harness) ---
    lastFilter,         \* the last buildFiltersFromValues call: [called, fields, values, result]
    \* --- the job page ---
    isRunning,
    filterValues,       \* field name -> what is typed, if anything
    patch,              \* the column card: addColumn, newColumnName, newColumnValue,
                        \* modifyColumn, modifyColumnName, modifyColumnValue
    pagePc,             \* handleRunJob: [at |-> "idle"] or [at |-> "loading", filter]
    pageLog             \* history: the last run, its request, its export and its toast

cryptoVars == <<encArgs, encOut, decArgs, decOut>>
persistVars == <<lsCredentials, user_configurations, api_configs>>
modalVars == <<session, config, savePc, showDuplicateDialog, dupExisting, useExisting, toast>>
apiVars == <<token, calls, firstAuth>>
rlsVars == <<db, now, lastOp, lastToggle, publicConfigs>>
jobVars == <<jobs, nextId, savedJobs, lastGetJobs>>
runVars == <<runPc, execution_history, runLog, downloads, lastExport, runToast>>
cacheVars == <<cache, ido_api_cache, dateNow, inFlight, requests, distinctRet>>
filterVars == <<lastFilter>>
pageVars == <<isRunning, filterValues, patch, pagePc, pageLog>>

vars == <<cryptoVars, persistVars, modalVars, apiVars, rlsVars, jobVars, runVars, cacheVars, filterVars, pageVars>>

--------------------------------------------------------------------------
(* Bounds of the model *)

\* longest plaintext, in characters, handed to encrypt in the harness
MaxTextLen == 2
\* number of distinct encryption passwords
NumPasswords == 2
\* most rows the api_configs table takes in besides the seeded one
MaxApiConfigRows == 1
\* most rows clients insert into the user tables
MaxInsertedRows == 1
\* most rows DatabaseJobService inserts
MaxJobInserts == 3
\* longest item list
MaxItems == 2
\* most downloads
MaxDownloads == 2
\* most load requests
MaxRuns == 2
\* most items of a response to a distinct-values request
MaxResponseItems == 2
\* most filterable fields of a job
MaxFields == 2
\* most distinct-values requests sent
MaxRequests == 2
\* seconds the clock of the cache runs for
MaxClock == 1

--------------------------------------------------------------------------
(* Strings, bytes and hex                                                  *)

\* A byte is a number below 2^8 (Uint8Array element).
ByteMod == 16 * 16

\* A string is a sequence of code points.  The alphabet holds an ASCII
\* letter, an ASCII control character (whose byte is below 16, one hex
\* digit before padding) and a two-byte character.
Alphabet == {10, 97, 233}

RECURSIVE SeqsUpTo(_, _)
SeqsUpTo(S, n) ==
    IF n = 0 THEN {<<>>}
    ELSE LET shorter == SeqsUpTo(S, n - 1)
         IN  shorter \cup {Append(s, x) : s \in {t \in shorter : Len(t) = n - 1}, x \in S}

RECURSIVE SumSeq(_)
SumSeq(s) == IF s = <<>> THEN 0 ELSE Head(s) + SumSeq(Tail(s))

RECURSIVE Flatten(_)
Flatten(ss) == IF ss = <<>> THEN <<>> ELSE Head(ss) \o Flatten(Tail(ss))

\* TextEncoder.encode: UTF-8 of one code point (below U+0800 in this model).
Utf8OfChar(c) ==
    IF c < 128 THEN <<c>>
    ELSE <<192 + (c \div 64), 128 + (c % 64)>>

TextEncode(s) == Flatten([i \in 1..Len(s) |-> Utf8OfChar(s[i])])

\* TextDecoder.decode: the inverse on well-formed input; a malformed byte
\* decodes to U+FFFD.
ReplacementChar == ByteMod * ByteMod - 3

RECURSIVE TextDecode(_)
TextDecode(b) ==
    IF b = <<>> THEN <<>>
    ELSE IF b[1] < 128 THEN <<b[1]>> \o TextDecode(Tail(b))
    ELSE IF b[1] >= 192 /\ b[1] < 224 /\ Len(b) >= 2 /\ b[2] >= 128 /\ b[2] < 192
         THEN <<(b[1] - 192) * 64 + (b[2] - 128)>> \o TextDecode(Tail(Tail(b)))
    ELSE <<ReplacementChar>> \o TextDecode(Tail(b))

\* b.toString(16): the hex digits of a byte without padding.
ToString16(b) == IF b < 16 THEN <<b>> ELSE <<b \div 16, b % 16>>

\* .padStart(2, '0')
PadStart2(digits) == IF Len(digits) < 2 THEN <<0>> \o digits ELSE digits

\* Byte to hex with the padding left out.
ByteToHexNoPad(b) == ToString16(b)

\* b => b.toString(16).padStart(2, '0')
ByteToHex(b) == PadStart2(ToString16(b))

\* Array.from(bytes).map(ByteToHex).join('')
BytesToHex(bytes) == Flatten([i \in 1..Len(bytes) |-> ByteToHex(bytes[i])])

\* hex.match(/.{1,2}/g): greedy chunks of two characters, the last may be one.
RECURSIVE MatchPairs(_)
MatchPairs(h) ==
    IF h = <<>> THEN <<>>
    ELSE IF Len(h) = 1 THEN <<h>>
    ELSE <<SubSeq(h, 1, 2)>> \o MatchPairs(SubSeq(h, 3, Len(h)))

\* parseInt(chunk, 16)
ParseInt16(chunk) == IF Len(chunk) = 1 THEN chunk[1] ELSE chunk[1] * 16 + chunk[2]

\* new Uint8Array(hex.match(/.{1,2}/g)!.map(byte => parseInt(byte, 16)))
HexToBytes(h) == LET chunks == MatchPairs(h)
                 IN  [i \in 1..Len(chunks) |-> ParseInt16(chunks[i])]

--------------------------------------------------------------------------
(* Web Crypto primitives, modelled by their contract                       *)

Passwords == 1..NumPasswords

\* crypto.getRandomValues: the (salt, iv) pairs the generator may return,
\* shortened to two bytes and one byte, with bytes on both sides of 16.
RandomDraws == {[salt |-> <<5, 171>>, iv |-> <<3>>],
                [salt |-> <<200, 9>>, iv |-> <<77>>]}

\* PBKDF2 + AES-GCM key derivation: a key is determined by the password and
\* the salt, and two passwords never share a key under one salt.
deriveKey(password, salt) == (password * 37 + SumSeq(salt)) % ByteMod

\* The authentication tag AES-GCM appends: it binds the key, the IV and the
\* plaintext.
GcmTag(key, iv, plain) == <<key, (SumSeq(iv) + SumSeq(plain)) % ByteMod>>

\* crypto.subtle.encrypt({name: "AES-GCM", iv}, key, plain)
SubtleEncrypt(key, iv, plain) ==
    [i \in 1..Len(plain) |-> (plain[i] + key + SumSeq(iv) + i) % ByteMod]
        \o GcmTag(key, iv, plain)

\* crypto.subtle.decrypt: [ok |-> FALSE] stands for the OperationError a
\* failed tag check throws.
SubtleDecrypt(key, iv, cipher) ==
    IF Len(cipher) < 2 THEN [ok |-> FALSE]
    ELSE LET n     == Len(cipher) - 2
             plain == [i \in 1..n |-> (cipher[i] - key - SumSeq(iv) - i) % ByteMod]
         IN  IF SubSeq(cipher, n + 1, n + 2) = GcmTag(key, iv, plain)
             THEN [ok |-> TRUE, bytes |-> plain]
             ELSE [ok |-> FALSE]

--------------------------------------------------------------------------
(* EncryptionService                                                       *)

\* EncryptionService.encrypt with the salt and IV the generator returned.
encrypt(data, password, salt, iv) ==
    LET key == deriveKey(password, salt)
    IN  [encrypted |-> BytesToHex(SubtleEncrypt(key, iv, TextEncode(data))),
         salt      |-> BytesToHex(salt),
         iv        |-> BytesToHex(iv)]

\* EncryptionService.decrypt: [ok |-> FALSE] is the rejected promise.
decrypt(encryptedHex, saltHex, ivHex, password) ==
    LET salt == HexToBytes(saltHex)
        iv   == HexToBytes(ivHex)
        key  == deriveKey(password, salt)
        res  == SubtleDecrypt(key, iv, HexToBytes(encryptedHex))
    IN  IF res.ok THEN [ok |-> TRUE, data |-> TextDecode(res.bytes)]
        ELSE [ok |-> FALSE]

Plaintexts == SeqsUpTo(Alphabet, MaxTextLen)

CryptoInit ==
    /\ encArgs = [called |-> FALSE]
    /\ encOut = [encrypted |-> <<>>, salt |-> <<>>, iv |-> <<>>]
    /\ decArgs = [called |-> FALSE]
    /\ decOut = [ok |-> FALSE]

\* A caller encrypts some data under some password.
CallEncrypt ==
    \E d \in Plaintexts, p \in Passwords, r \in RandomDraws :
        /\ encArgs' = [called |-> TRUE, data |-> d, password |-> p]
        /\ encOut' = encrypt(d, p, r.salt, r.iv)
        /\ decArgs' = [called |-> FALSE]
        /\ decOut' = [ok |-> FALSE]
        /\ UNCHANGED <<persistVars, modalVars, apiVars, rlsVars, jobVars, runVars, cacheVars, filterVars, pageVars>>

\* A caller decrypts the stored triple under some password.
CallDecrypt ==
    /\ encArgs.called
    /\ \E p \in Passwords :
        /\ decArgs' = [called |-> TRUE, password |-> p]
        /\ decOut' = decrypt(encOut.encrypted, encOut.salt, encOut.iv, p)
    /\ UNCHANGED <<encArgs, encOut>>
    /\ UNCHANGED <<persistVars, modalVars, apiVars, rlsVars, jobVars, runVars, cacheVars, filterVars, pageVars>>

CryptoNext == CallEncrypt \/ CallDecrypt

--------------------------------------------------------------------------
(* Credentials and where they are persisted                                *)

\* the owner of the rows the 20250704 migration seeds, the super admin
SeedUser == "4efc0a81"
\* the signed-in users: an ordinary one and the super admin
Users == {"u1", SeedUser}

\* ERP passwords and the one ERP username of the model, as one-character
\* strings (code points).
ErpPasswords == {112, 113}
ErpUsername == 96 + 1
BaseUrl == 96 + 8

\* the credentials object of saveConfiguration / handleSaveConfig
Credentials(password) ==
    [base_url |-> BaseUrl, username |-> ErpUsername, password |-> password]

\* JSON.stringify of the credentials object: its values in field order.
Stringify(c) == <<c.base_url, c.username, c.password>>

\* JSON.parse of such a text.
Parse(text) == [base_url |-> text[1], username |-> text[2], password |-> text[3]]

\* A persisted value is tagged with its form: "hex" and "base64" are
\* encodings of cipher bytes, "json" is readable text with the fields of
\* body.
HexValue(digits) == [form |-> "hex", body |-> digits]
JsonValue(fields) == [form |-> "json", body |-> fields]

\* CloudDatabaseService.encryptData: AES-GCM under the raw key, the IV put
\* in front, the whole base64-encoded.
encryptData(data, key, iv) ==
    [form |-> "base64", body |-> iv \o SubtleEncrypt(key, iv, TextEncode(data))]

\* The api_configs row the 20250704 migration inserts: encrypted_config is
\* the JSON text of the configuration, password included.
SeedApiConfigRow ==
    [user_id |-> SeedUser,
     username |-> "kw_api_test",
     encrypted_config |-> JsonValue([config |-> "VGZWEX6TZNRG7XYH_TRN_NIHONMY",
                                     password |-> "12345678"])]

\* A value holds a password in plaintext when it is readable text with a
\* password field.
HoldsPlaintextPassword(v) == v.form = "json" /\ "password" \in DOMAIN v.body

\* Every value the credential paths persist.
PersistedValues ==
    (IF lsCredentials.present THEN {lsCredentials.value} ELSE {})
    \cup UNION {{HexValue(r.encrypted_data), HexValue(r.salt), HexValue(r.iv)}
                : r \in user_configurations}
    \cup {r.encrypted_config : r \in api_configs}

PersistInit ==
    /\ lsCredentials = [present |-> FALSE]
    /\ user_configurations = {}
    /\ api_configs = {SeedApiConfigRow}

\* CredentialsService.saveCredentials: localStorage.setItem(STORAGE_KEY,
\* JSON.stringify(encrypted)).
saveCredentials(credentials, password, r) ==
    [present |-> TRUE,
     value |-> JsonValue(encrypt(Stringify(credentials), password, r.salt, r.iv))]

\* Row-level security of user_configurations: every policy is
\* auth.uid() = user_id.
UserConfigVisible(uid) == {r \in user_configurations : r.user_id = uid}

\* ConfigurationService.saveConfiguration after getUser() returned user,
\* with the queries running under the session sess: the result and the
\* table afterwards.
saveConfiguration(user, sess, username, configData, encryptionPassword, r) ==
    LET existingConfigs == {c \in UserConfigVisible(sess) : c.username = username}
        existingUser  == {c \in existingConfigs : c.user_id = user}
        existingOther == {c \in existingConfigs : c.user_id # user}
        encrypted == encrypt(Stringify(Credentials(configData.password)),
                             encryptionPassword, r.salt, r.iv)
        newRow == [user_id |-> user, username |-> username,
                   encrypted_data |-> encrypted.encrypted,
                   salt |-> encrypted.salt, iv |-> encrypted.iv]
    IN  IF existingOther # {}
        THEN [success |-> FALSE, hasExisting |-> TRUE,
              existingConfig |-> CHOOSE c \in existingOther : TRUE,
              table |-> user_configurations]
        ELSE IF existingUser # {}
        THEN \* update ... eq('id', existingUserConfig.id)
             [success |-> TRUE, hasExisting |-> FALSE,
              table |-> (user_configurations \ existingUser) \cup {newRow}]
        ELSE IF sess = user
        THEN \* insert, allowed by WITH CHECK (auth.uid() = user_id)
             [success |-> TRUE, hasExisting |-> FALSE,
              table |-> user_configurations \cup {newRow}]
        ELSE \* insert rejected by the policy
             [success |-> FALSE, hasExisting |-> FALSE,
              table |-> user_configurations]

\* ConfigurationService.loadConfiguration under the session sess.
loadConfiguration(sess, username, encryptionPassword) ==
    LET found == {c \in UserConfigVisible(sess) :
                     c.user_id = sess /\ c.username = username}
    IN  IF found = {} THEN [success |-> FALSE]
        ELSE LET c == CHOOSE x \in found : TRUE
                 d == decrypt(c.encrypted_data, c.salt, c.iv, encryptionPassword)
             IN  IF d.ok THEN [success |-> TRUE, data |-> Parse(d.data)]
                 ELSE [success |-> FALSE]

\* A signed-in user saves credentials to localStorage.
CallSaveCredentials ==
    \E pw \in ErpPasswords, p \in Passwords, r \in RandomDraws :
        /\ lsCredentials' = saveCredentials(Credentials(pw), p, r)
        /\ UNCHANGED <<user_configurations, api_configs>>
        /\ UNCHANGED <<cryptoVars, modalVars, apiVars, rlsVars, jobVars, runVars, cacheVars, filterVars, pageVars>>

\* A signed-in user calls ConfigurationService.saveConfiguration.
CallSaveConfiguration ==
    \E u \in Users, pw \in ErpPasswords, p \in Passwords, r \in RandomDraws :
        /\ user_configurations' =
               saveConfiguration(u, u, ErpUsername, [password |-> pw], p, r).table
        /\ UNCHANGED <<lsCredentials, api_configs>>
        /\ UNCHANGED <<cryptoVars, modalVars, apiVars, rlsVars, jobVars, runVars, cacheVars, filterVars, pageVars>>

\* CloudDatabaseService.saveApiConfig with a key of a valid AES length: the
\* upsert names no conflict target and no id, so it inserts a row.
CallSaveApiConfig ==
    \E u \in Users, pw \in ErpPasswords, k \in Passwords, r \in RandomDraws :
        /\ Cardinality(api_configs) <= MaxApiConfigRows
        /\ api_configs' = api_configs \cup
              {[user_id |-> u, username |-> "erp",
                encrypted_config |->
                    encryptData(Stringify(Credentials(pw)), deriveKey(k, <<>>), r.iv)]}
        /\ UNCHANGED <<lsCredentials, user_configurations>>
        /\ UNCHANGED <<cryptoVars, modalVars, apiVars, rlsVars, jobVars, runVars, cacheVars, filterVars, pageVars>>

PersistNext ==
    \/ CallSaveCredentials
    \/ CallSaveConfiguration
    \/ CallSaveApiConfig

--------------------------------------------------------------------------
(* The configuration modal                                                 *)

ModalInit ==
    /\ session = "u1"
    /\ config = [password |-> 112, encryption_password |-> 1]
    /\ savePc = [at |-> "idle"]
    /\ showDuplicateDialog = FALSE
    /\ dupExisting = [reported |-> FALSE]
    /\ useExisting = [called |-> FALSE]
    /\ toast = "none"

\* supabase.auth.signInWithPassword: the client's session becomes another
\* user's; the modal stays mounted.
SignIn ==
    /\ \E u \in Users \ {session} : session' = u
    /\ UNCHANGED <<config, savePc, showDuplicateDialog, dupExisting, useExisting, toast>>
    /\ UNCHANGED persistVars
    /\ UNCHANGED <<cryptoVars, apiVars, rlsVars, jobVars, runVars, cacheVars, filterVars, pageVars>>

\* updateConfig: the user types into the form.
UpdateConfig ==
    /\ savePc.at = "idle"
    /\ ~showDuplicateDialog
    /\ \E pw \in ErpPasswords, p \in Passwords :
        /\ config' = [password |-> pw, encryption_password |-> p]
        /\ config' # config
    /\ useExisting' = [called |-> FALSE]
    /\ UNCHANGED <<session, savePc, showDuplicateDialog, dupExisting, toast>>
    /\ UNCHANGED persistVars
    /\ UNCHANGED <<cryptoVars, apiVars, rlsVars, jobVars, runVars, cacheVars, filterVars, pageVars>>

\* validateAndSave up to saveConfiguration's await of getUser().
ValidateAndSaveStart ==
    /\ savePc.at = "idle"
    /\ ~showDuplicateDialog
    /\ savePc' = [at |-> "lookup", user |-> session]
    /\ useExisting' = [called |-> FALSE]
    /\ UNCHANGED <<session, config, showDuplicateDialog, dupExisting, toast>>
    /\ UNCHANGED persistVars
    /\ UNCHANGED <<cryptoVars, apiVars, rlsVars, jobVars, runVars, cacheVars, filterVars, pageVars>>

\* validateAndSave from saveConfiguration's lookup to its end.
ValidateAndSaveFinish ==
    /\ savePc.at = "lookup"
    /\ \E r \in RandomDraws, r2 \in RandomDraws :
        LET result == saveConfiguration(savePc.user, session, ErpUsername, config,
                                        config.encryption_password, r)
        IN  /\ user_configurations' = result.table
            /\ IF result.success
               THEN \* onSave(config): handleSaveConfig -> saveCredentials
                    /\ lsCredentials' = saveCredentials(Credentials(config.password),
                                                        config.encryption_password, r2)
                    /\ toast' = "Configuration Saved"
                    /\ UNCHANGED <<showDuplicateDialog, dupExisting>>
               ELSE IF result.hasExisting
               THEN /\ showDuplicateDialog' = TRUE
                    /\ dupExisting' = [reported |-> TRUE, row |-> result.existingConfig]
                    /\ UNCHANGED <<lsCredentials, toast>>
               ELSE /\ toast' = "Save Failed"
                    /\ UNCHANGED <<lsCredentials, showDuplicateDialog, dupExisting>>
    /\ savePc' = [at |-> "idle"]
    /\ UNCHANGED <<session, config, useExisting, api_configs>>
    /\ UNCHANGED <<cryptoVars, apiVars, rlsVars, jobVars, runVars, cacheVars, filterVars, pageVars>>

\* The dialog's "Create New" button.
CancelDuplicate ==
    /\ showDuplicateDialog
    /\ showDuplicateDialog' = FALSE
    /\ UNCHANGED <<session, config, savePc, dupExisting, useExisting, toast>>
    /\ UNCHANGED persistVars
    /\ UNCHANGED <<cryptoVars, apiVars, rlsVars, jobVars, runVars, cacheVars, filterVars, pageVars>>

\* handleUseDuplicateConfig: the dialog's "Use Existing Configuration".
HandleUseDuplicateConfig ==
    /\ showDuplicateDialog
    /\ showDuplicateDialog' = FALSE
    /\ LET result == loadConfiguration(session, ErpUsername, config.encryption_password)
       IN  /\ IF result.success
              THEN /\ config' = [config EXCEPT !.password = result.data.password]
                   /\ toast' = "Configuration Loaded"
              ELSE /\ toast' = "Load Failed"
                   /\ UNCHANGED config
           /\ useExisting' = [called |-> TRUE, row |-> dupExisting.row,
                              password |-> config.encryption_password]
    /\ UNCHANGED <<session, savePc, dupExisting>>
    /\ UNCHANGED persistVars
    /\ UNCHANGED <<cryptoVars, apiVars, rlsVars, jobVars, runVars, cacheVars, filterVars, pageVars>>

ModalNext ==
    \/ SignIn
    \/ UpdateConfig
    \/ ValidateAndSaveStart
    \/ ValidateAndSaveFinish
    \/ CancelDuplicate
    \/ HandleUseDuplicateConfig

--------------------------------------------------------------------------
(* ApiService.getAuthHeaders                                               *)

\* The callers that can have a getAuthHeaders call in flight at once:
\* loadDropdownsForJob starts one getDistinctValues per dropdown field of the
\* job and awaits them together, and testConnection is a button away.
Callers == {"Lot", "Item", "testConnection"}

\* the tokens the ERP token endpoint hands out
Tokens == {"tokenA", "tokenB"}

\* what the token endpoint can answer: a token, a non-2xx status, or a body
\* without Token.
TokenResponses == Tokens \cup {"http_error", "no_token"}

\* One getAuthHeaders call: where it is, whether it began after some call
\* had succeeded, whether it sent a token request, and what it returned.
Call(pc, late, requested, ok, auth) ==
    [pc |-> pc, late |-> late, requested |-> requested, ok |-> ok,
     Authorization |-> auth]

ApiInit ==
    /\ token = [set |-> FALSE, value |-> "null"]
    /\ calls = [c \in Callers |-> Call("idle", FALSE, FALSE, FALSE, "none")]
    /\ firstAuth = [set |-> FALSE, value |-> "none"]

\* getAuthHeaders with this.token set: the cached headers, no request.
GetAuthHeadersCached ==
    \E c \in Callers :
        /\ calls[c].pc = "idle"
        /\ token.set
        /\ calls' = [calls EXCEPT ![c] =
                        Call("done", firstAuth.set, FALSE, TRUE, token.value)]
        /\ UNCHANGED <<token, firstAuth>>
        /\ UNCHANGED <<cryptoVars, persistVars, modalVars, rlsVars, jobVars, runVars, cacheVars, filterVars, pageVars>>

\* getAuthHeaders with this.token null, up to the await of fetch(tokenUrl).
GetAuthHeadersFetch ==
    \E c \in Callers :
        /\ calls[c].pc = "idle"
        /\ ~token.set
        /\ calls' = [calls EXCEPT ![c] =
                        Call("fetching", firstAuth.set, TRUE, FALSE, "none")]
        /\ UNCHANGED <<token, firstAuth>>
        /\ UNCHANGED <<cryptoVars, persistVars, modalVars, rlsVars, jobVars, runVars, cacheVars, filterVars, pageVars>>

\* getAuthHeaders from the token response to its return: this.token is
\* assigned whatever Token the response carries.
GetAuthHeadersResume ==
    \E c \in Callers, resp \in TokenResponses :
        /\ calls[c].pc = "fetching"
        /\ IF resp \in Tokens
           THEN /\ token' = [set |-> TRUE, value |-> resp]
                /\ calls' = [calls EXCEPT ![c] =
                                Call("done", calls[c].late, TRUE, TRUE, resp)]
                /\ firstAuth' = IF firstAuth.set THEN firstAuth
                                ELSE [set |-> TRUE, value |-> resp]
           ELSE /\ calls' = [calls EXCEPT ![c] =
                                Call("done", calls[c].late, TRUE, FALSE, "none")]
                /\ UNCHANGED <<token, firstAuth>>
        /\ UNCHANGED <<cryptoVars, persistVars, modalVars, rlsVars, jobVars, runVars, cacheVars, filterVars, pageVars>>

\* The caller takes the result; it may call again.
ReturnHeaders ==
    \E c \in Callers :
        /\ calls[c].pc = "done"
        /\ calls' = [calls EXCEPT ![c] = Call("idle", FALSE, FALSE, FALSE, "none")]
        /\ UNCHANGED <<token, firstAuth>>
        /\ UNCHANGED <<cryptoVars, persistVars, modalVars, rlsVars, jobVars, runVars, cacheVars, filterVars, pageVars>>

ApiNext ==
    \/ GetAuthHeadersCached
    \/ GetAuthHeadersFetch
    \/ GetAuthHeadersResume
    \/ ReturnHeaders

--------------------------------------------------------------------------
(* The tables behind row-level security                                    *)

\* owner of the seeded job template
SystemUser == "00000000"

\* expires_at IS NULL
NullTime == 0 - 1
\* the instants NOW() and expires_at take
Clock == {1, 2}

UserTables == {"jobs", "api_configs", "execution_history", "user_settings",
               "export_data", "user_configurations"}
Tables == UserTables \cup {"global_config", "admin_users", "user_profiles"}

\* A row, reduced to the columns the policies and the handlers look at; a
\* column a table does not have keeps the value below.
DefaultRow(u) ==
    [user_id |-> u, is_template |-> FALSE, is_shared |-> FALSE,
     expires_at |-> NullTime, is_public |-> FALSE, is_active |-> TRUE,
     role |-> "none"]

\* The rows a client can send to table t.
NewRows(t) ==
    IF t = "jobs"
    THEN {[DefaultRow(u) EXCEPT !.is_template = a, !.is_shared = b] :
             u \in Users, a \in BOOLEAN, b \in BOOLEAN}
    ELSE IF t = "export_data"
    THEN {[DefaultRow(u) EXCEPT !.is_shared = b, !.expires_at = e] :
             u \in Users, b \in BOOLEAN, e \in Clock \cup {NullTime}}
    ELSE IF t = "global_config"
    THEN {[DefaultRow(u) EXCEPT !.is_public = b] : u \in Users, b \in BOOLEAN}
    ELSE IF t = "user_profiles"
    THEN {[DefaultRow(u) EXCEPT !.is_active = b] : u \in Users, b \in BOOLEAN}
    ELSE IF t = "admin_users"
    THEN {[DefaultRow(u) EXCEPT !.role = "admin"] : u \in Users}
    ELSE {DefaultRow(u) : u \in Users}

\* The rows the migrations leave in the tables: the default global
\* configuration, the super admin, a profile per user, the shared job
\* template and the API configuration.
SeedRows(t) ==
    IF t = "global_config"
    THEN {[DefaultRow(SeedUser) EXCEPT !.is_public = TRUE], DefaultRow(SeedUser)}
    ELSE IF t = "admin_users"
    THEN {[DefaultRow(SeedUser) EXCEPT !.role = "super_admin"]}
    ELSE IF t = "user_profiles" THEN {DefaultRow(u) : u \in Users}
    ELSE IF t = "jobs"
    THEN {[DefaultRow(SystemUser) EXCEPT !.is_template = TRUE, !.is_shared = TRUE]}
    ELSE IF t = "api_configs" THEN {DefaultRow(SeedUser)}
    ELSE {}

\* The policies: table, command, and the expression that is the policy's
\* USING and, for rows written, its WITH CHECK.
Policy(t, cmd, expr) == [table |-> t, cmd |-> cmd, expr |-> expr]

Policies ==
    {Policy("global_config", "SELECT", "is_public"),
     Policy("global_config", "ALL", "is_admin"),
     Policy("admin_users", "SELECT", "is_admin"),
     Policy("admin_users", "ALL", "is_super_admin"),
     Policy("user_profiles", "SELECT", "own"),
     Policy("user_profiles", "UPDATE", "own"),
     Policy("user_profiles", "SELECT", "is_admin"),
     Policy("jobs", "ALL", "own"),
     Policy("jobs", "SELECT", "shared_template"),
     Policy("api_configs", "ALL", "own"),
     Policy("execution_history", "ALL", "own"),
     Policy("user_settings", "ALL", "own"),
     Policy("export_data", "ALL", "own"),
     Policy("export_data", "SELECT", "shared_unexpired"),
     Policy("user_configurations", "SELECT", "own"),
     Policy("user_configurations", "INSERT", "own"),
     Policy("user_configurations", "UPDATE", "own"),
     Policy("user_configurations", "DELETE", "own")}

\* EXISTS (SELECT 1 FROM admin_users WHERE user_id = auth.uid())
IsAdmin(uid) == \E a \in db["admin_users"] : a.user_id = uid

\* The shared-template expression with OR in the place of AND.
EvalEitherFlag(expr, uid, r, at) ==
    IF expr = "own" THEN uid = r.user_id
    ELSE IF expr = "is_public" THEN r.is_public
    ELSE IF expr = "shared_template" THEN r.is_template \/ r.is_shared
    ELSE IF expr = "shared_unexpired"
    THEN r.is_shared /\ (r.expires_at = NullTime \/ r.expires_at > at)
    ELSE IF expr = "is_admin" THEN IsAdmin(uid)
    ELSE \E a \in db["admin_users"] : a.user_id = uid /\ a.role = "super_admin"

\* A policy expression on row r for the user uid at the instant at.
Eval(expr, uid, r, at) ==
    IF expr = "own" THEN uid = r.user_id
    ELSE IF expr = "is_public" THEN r.is_public
    ELSE IF expr = "shared_template" THEN r.is_template /\ r.is_shared
    ELSE IF expr = "shared_unexpired"
    THEN r.is_shared /\ (r.expires_at = NullTime \/ r.expires_at > at)
    ELSE IF expr = "is_admin" THEN IsAdmin(uid)
    ELSE \E a \in db["admin_users"] : a.user_id = uid /\ a.role = "super_admin"

\* The expressions that hold a sub-select, all of them on admin_users.
HasSubLink(expr) == expr \in {"is_admin", "is_super_admin"}

\* The policies of table t that apply to a statement of the commands cmds.
Applicable(t, cmds) == {p \in Policies : p.table = t /\ p.cmd \in cmds \cup {"ALL"}}

\* The rewriter adds the applicable policies of t to the query and then
\* rewrites their sub-selects, which read admin_users under its own SELECT
\* policies; it raises "infinite recursion detected in policy" when it comes
\* to a table whose policies it is already expanding.
RECURSIVE InfiniteRecursion(_, _, _)
InfiniteRecursion(t, cmds, active) ==
    /\ \E p \in Applicable(t, cmds) : HasSubLink(p.expr)
    /\ \/ t \in active
       \/ InfiniteRecursion("admin_users", {"SELECT"}, active \cup {t})

\* Permissive policies are ORed.
Passes(t, cmds, uid, r, at) == \E p \in Applicable(t, cmds) : Eval(p.expr, uid, r, at)

\* The result of a client statement: the table afterwards and what the
\* statement read, replaced and wrote.
OpResult(error, table, read, old, new) ==
    [error |-> error, table |-> table, read |-> read, old |-> old, new |-> new]

\* select * from t
RlsSelect(uid, t) ==
    IF InfiniteRecursion(t, {"SELECT"}, {})
    THEN OpResult(TRUE, db[t], {}, {}, {})
    ELSE OpResult(FALSE, db[t], {r \in db[t] : Passes(t, {"SELECT"}, uid, r, now)}, {}, {})

\* insert into t values r
RlsInsert(uid, t, r) ==
    IF InfiniteRecursion(t, {"INSERT"}, {}) \/ ~Passes(t, {"INSERT"}, uid, r, now)
    THEN OpResult(TRUE, db[t], {}, {}, {})
    ELSE OpResult(FALSE, db[t] \cup {r}, {}, {}, {r})

\* update t set ... where ...: targets are the rows the filter matches, set
\* gives the new version of a row. The filter reads columns, so the SELECT
\* policies apply as well.
RlsUpdate(uid, t, targets, set) ==
    LET hit == {r \in targets : /\ Passes(t, {"SELECT"}, uid, r, now)
                                /\ Passes(t, {"UPDATE"}, uid, r, now)}
        written == {set[r] : r \in hit}
    IN  IF \/ InfiniteRecursion(t, {"UPDATE", "SELECT"}, {})
           \/ \E w \in written : \/ ~Passes(t, {"UPDATE"}, uid, w, now)
                                  \/ ~Passes(t, {"SELECT"}, uid, w, now)
        THEN OpResult(TRUE, db[t], {}, {}, {})
        ELSE OpResult(FALSE, (db[t] \ hit) \cup written, {}, hit, written)

\* delete from t where ...
RlsDelete(uid, t, targets) ==
    LET hit == {r \in targets : /\ Passes(t, {"SELECT"}, uid, r, now)
                                /\ Passes(t, {"DELETE"}, uid, r, now)}
    IN  IF InfiniteRecursion(t, {"DELETE", "SELECT"}, {})
        THEN OpResult(TRUE, db[t], {}, {}, {})
        ELSE OpResult(FALSE, db[t] \ hit, {}, hit, {})

\* The rows clients have put into the user tables, over all tables.
InsertedRows == UNION {{<<t, r>> : r \in db[t] \ SeedRows(t)} : t \in UserTables}

\* The last statement, for the history variable lastOp.
Op(called, user, t, cmd, res, at) ==
    [called |-> called, user |-> user, table |-> t, cmd |-> cmd, at |-> at,
     error |-> res.error, read |-> res.read, old |-> res.old, new |-> res.new]

NoToggle ==
    [called |-> FALSE, user |-> "none", userId |-> "none", isActive |-> FALSE,
     before |-> {}, after |-> {}, toast |-> "none"]

NoOp == Op(FALSE, "none", "none", "none", OpResult(FALSE, {}, {}, {}, {}), 1)

NoPublicConfigs == [called |-> FALSE, user |-> "none", rows |-> {}]

RlsInit ==
    /\ db = [t \in Tables |-> SeedRows(t)]
    /\ now = 1
    /\ lastOp = NoOp
    /\ lastToggle = NoToggle
    /\ publicConfigs = NoPublicConfigs

\* No statement's result is waiting for its caller: the database takes the
\* statements one at a time, and the history variables hold the last one
\* until its caller has its result.
Quiet == ~lastOp.called /\ ~lastToggle.called /\ ~publicConfigs.called

\* The caller of the last statement takes its result.
TakeResult ==
    /\ ~Quiet
    /\ lastOp' = NoOp
    /\ lastToggle' = NoToggle
    /\ publicConfigs' = NoPublicConfigs
    /\ UNCHANGED <<db, now>>
    /\ UNCHANGED <<cryptoVars, persistVars, modalVars, apiVars, jobVars, runVars, cacheVars, filterVars, pageVars>>

\* Time passes.
Tick ==
    /\ Quiet
    /\ \E t \in Clock : t > now /\ now' = t
    /\ UNCHANGED <<db, lastOp, lastToggle, publicConfigs>>
    /\ UNCHANGED <<cryptoVars, persistVars, modalVars, apiVars, jobVars, runVars, cacheVars, filterVars, pageVars>>

\* supabase.from(t).select('*') by a signed-in user.
ClientSelect ==
    \E u \in Users, t \in Tables :
        /\ Quiet
        /\ lastOp' = Op(TRUE, u, t, "SELECT", RlsSelect(u, t), now)
        /\ UNCHANGED <<db, now, lastToggle, publicConfigs>>
        /\ UNCHANGED <<cryptoVars, persistVars, modalVars, apiVars, jobVars, runVars, cacheVars, filterVars, pageVars>>

\* supabase.from(t).insert(r) by a signed-in user.
ClientInsert ==
    \E u \in Users, t \in Tables :
        \E r \in NewRows(t) \ db[t] :
            LET res == RlsInsert(u, t, r)
            IN  /\ Quiet
                /\ Cardinality(InsertedRows) < MaxInsertedRows
                /\ db' = [db EXCEPT ![t] = res.table]
                /\ lastOp' = Op(TRUE, u, t, "INSERT", res, now)
                /\ UNCHANGED <<now, lastToggle, publicConfigs>>
                /\ UNCHANGED <<cryptoVars, persistVars, modalVars, apiVars, jobVars, runVars, cacheVars, filterVars, pageVars>>

\* supabase.from(t).update(w).eq(...) by a signed-in user, aimed at row r.
ClientUpdate ==
    \E u \in Users, t \in Tables :
        \E r \in db[t], w \in NewRows(t) \ db[t] :
            LET res == RlsUpdate(u, t, {r}, [x \in {r} |-> w])
            IN  /\ Quiet
                /\ db' = [db EXCEPT ![t] = res.table]
                /\ lastOp' = Op(TRUE, u, t, "UPDATE", res, now)
                /\ UNCHANGED <<now, lastToggle, publicConfigs>>
                /\ UNCHANGED <<cryptoVars, persistVars, modalVars, apiVars, jobVars, runVars, cacheVars, filterVars, pageVars>>

\* supabase.from(t).delete().eq(...) by a signed-in user, aimed at row r.
ClientDelete ==
    \E u \in Users, t \in Tables :
        \E r \in db[t] :
            LET res == RlsDelete(u, t, {r})
            IN  /\ Quiet
                /\ db' = [db EXCEPT ![t] = res.table]
                /\ lastOp' = Op(TRUE, u, t, "DELETE", res, now)
                /\ UNCHANGED <<now, lastToggle, publicConfigs>>
                /\ UNCHANGED <<cryptoVars, persistVars, modalVars, apiVars, jobVars, runVars, cacheVars, filterVars, pageVars>>

\* GlobalConfigService.getPublicConfigs: the rows with is_public = true the
\* caller may see, and nothing when the query fails.
getPublicConfigs(uid) ==
    LET res == RlsSelect(uid, "global_config")
    IN  IF res.error THEN {} ELSE {r \in res.read : r.is_public}

GetPublicConfigs ==
    \E u \in Users :
        /\ Quiet
        /\ publicConfigs' = [called |-> TRUE, user |-> u, rows |-> getPublicConfigs(u)]
        /\ UNCHANGED <<db, now, lastOp, lastToggle>>
        /\ UNCHANGED <<cryptoVars, persistVars, modalVars, apiVars, jobVars, runVars, cacheVars, filterVars, pageVars>>

\* is_active of the profiles of userId, as stored.
StoredActive(table, userId) == {r.is_active : r \in {x \in table : x.user_id = userId}}

\* AdminPanel.toggleUserStatus(userId, isActive), called by an admin.
ToggleUserStatus ==
    \E u \in Users, userId \in Users, isActive \in BOOLEAN :
        LET targets == {r \in db["user_profiles"] : r.user_id = userId}
            res == RlsUpdate(u, "user_profiles", targets,
                             [r \in targets |-> [r EXCEPT !.is_active = ~isActive]])
        IN  /\ Quiet
            /\ IsAdmin(u)
            /\ db' = [db EXCEPT !["user_profiles"] = res.table]
            /\ lastToggle' =
                   [called |-> TRUE, user |-> u, userId |-> userId, isActive |-> isActive,
                    before |-> StoredActive(db["user_profiles"], userId),
                    after |-> StoredActive(res.table, userId),
                    toast |-> IF res.error THEN "Error" ELSE "Success"]
            /\ UNCHANGED <<now, lastOp, publicConfigs>>
            /\ UNCHANGED <<cryptoVars, persistVars, modalVars, apiVars, jobVars, runVars, cacheVars, filterVars, pageVars>>

RlsNext ==
    \/ Tick
    \/ TakeResult
    \/ ClientSelect
    \/ ClientInsert
    \/ ClientUpdate
    \/ ClientDelete
    \/ GetPublicConfigs
    \/ ToggleUserStatus

--------------------------------------------------------------------------
(* DatabaseJobService over public.jobs                                     *)

JobNames == {"Staging_Area_Label", "Open_Orders"}

\* The definitions a job can be saved with.
JobBodies ==
    {[ido_name |-> "OPSIT_RS_QCInspIps",
      query_params |-> [properties |-> "Name,Lot", recordCap |-> 100],
      output_format |-> "csv", filterable_fields |-> <<"Lot">>],
     [ido_name |-> "SLCoitems",
      query_params |-> [properties |-> "CoNum", recordCap |-> 50],
      output_format |-> "xlsx", filterable_fields |-> <<>>]}

\* The Job interface.
Job(name, body) ==
    [job_name |-> name, ido_name |-> body.ido_name,
     query_params |-> body.query_params, output_format |-> body.output_format,
     filterable_fields |-> body.filterable_fields]

\* Row-level security of public.jobs: every policy is auth.uid() = user_id.
JobsVisible(uid) == {r \in jobs : r.user_id = uid}

\* saveJob that never finds the existing row.
saveJobInsertOnly(user, job, id) ==
    LET row == [id |-> id, user_id |-> user, created_at |-> id,
                job_name |-> job.job_name, ido_name |-> job.ido_name,
                query_params |-> job.query_params,
                output_format |-> job.output_format,
                filterable_fields |-> job.filterable_fields]
    IN  IF \E r \in jobs : r.user_id = user /\ r.job_name = job.job_name
        THEN [success |-> FALSE, inserted |-> FALSE, table |-> jobs]
        ELSE [success |-> TRUE, inserted |-> TRUE, table |-> jobs \cup {row}]

\* DatabaseJobService.saveJob for the signed-in user; id is what
\* gen_random_uuid() and now() give a new row.
saveJob(user, job, id) ==
    LET existing == {r \in JobsVisible(user) :
                        r.user_id = user /\ r.job_name = job.job_name}
        row == [id |-> id, user_id |-> user, created_at |-> id,
                job_name |-> job.job_name, ido_name |-> job.ido_name,
                query_params |-> job.query_params,
                output_format |-> job.output_format,
                filterable_fields |-> job.filterable_fields]
    IN  IF Cardinality(existing) = 1
        THEN \* update ... eq('id', existingJob.id)
             LET e == CHOOSE r \in existing : TRUE
                 hit == {r \in JobsVisible(user) : r.id = e.id}
             IN  [success |-> TRUE, inserted |-> FALSE,
                  table |-> (jobs \ hit) \cup
                      {[r EXCEPT !.ido_name = job.ido_name,
                                 !.query_params = job.query_params,
                                 !.output_format = job.output_format,
                                 !.filterable_fields = job.filterable_fields] : r \in hit}]
        ELSE IF \E r \in jobs : r.user_id = user /\ r.job_name = job.job_name
        THEN \* the insert breaks UNIQUE(user_id, job_name)
             [success |-> FALSE, inserted |-> FALSE, table |-> jobs]
        ELSE [success |-> TRUE, inserted |-> TRUE, table |-> jobs \cup {row}]

\* DatabaseJobService.deleteJob for the signed-in user.
deleteJob(user, jobName) ==
    jobs \ {r \in JobsVisible(user) : r.user_id = user /\ r.job_name = jobName}

\* order('created_at', { ascending: false })
RECURSIVE OrderByCreatedAtDesc(_)
OrderByCreatedAtDesc(rows) ==
    IF rows = {} THEN <<>>
    ELSE LET first == CHOOSE r \in rows : \A x \in rows : x.created_at <= r.created_at
         IN  <<first>> \o OrderByCreatedAtDesc(rows \ {first})

\* DatabaseJobService.getJobs for the signed-in user.
getJobs(user) ==
    LET rows == OrderByCreatedAtDesc({r \in JobsVisible(user) : r.user_id = user})
    IN  [i \in 1..Len(rows) |->
            [job_name |-> rows[i].job_name, ido_name |-> rows[i].ido_name,
             query_params |-> rows[i].query_params,
             output_format |-> rows[i].output_format,
             filterable_fields |-> rows[i].filterable_fields]]

JobInit ==
    /\ jobs = {}
    /\ nextId = 1
    /\ savedJobs = [u \in Users |-> {}]
    /\ lastGetJobs = [called |-> FALSE, user |-> "none", data |-> <<>>, saved |-> {}]

\* A signed-in user saves a job.
SaveJob ==
    \E u \in Users, n \in JobNames, b \in JobBodies :
        LET res == saveJob(u, Job(n, b), nextId)
        IN  /\ nextId <= MaxJobInserts
            /\ jobs' = res.table
            /\ nextId' = IF res.inserted THEN nextId + 1 ELSE nextId
            /\ savedJobs' = [savedJobs EXCEPT ![u] =
                   {j \in savedJobs[u] : j.job_name # n} \cup {Job(n, b)}]
            /\ UNCHANGED lastGetJobs
            /\ UNCHANGED <<cryptoVars, persistVars, modalVars, apiVars, rlsVars, runVars, cacheVars, filterVars, pageVars>>

\* A signed-in user deletes a job.
DeleteJob ==
    \E u \in Users, n \in JobNames :
        /\ jobs' = deleteJob(u, n)
        /\ savedJobs' = [savedJobs EXCEPT ![u] = {j \in savedJobs[u] : j.job_name # n}]
        /\ UNCHANGED <<nextId, lastGetJobs>>
        /\ UNCHANGED <<cryptoVars, persistVars, modalVars, apiVars, rlsVars, runVars, cacheVars, filterVars, pageVars>>

\* A signed-in user lists the jobs.
GetJobs ==
    \E u \in Users :
        /\ lastGetJobs' = [called |-> TRUE, user |-> u, data |-> getJobs(u),
                           saved |-> savedJobs[u]]
        /\ UNCHANGED <<jobs, nextId, savedJobs>>
        /\ UNCHANGED <<cryptoVars, persistVars, modalVars, apiVars, rlsVars, runVars, cacheVars, filterVars, pageVars>>

JobNext ==
    \/ SaveJob
    \/ DeleteJob
    \/ GetJobs

--------------------------------------------------------------------------
(* ExportService.exportData and handleRunJob                               *)

\* An item list is a sequence of records; Items names the records.
Items == {"r1", "r2"}
ItemLists == SeqsUpTo(Items, MaxItems)

\* items as passed: a list, or undefined.
Given(list) == [present |-> TRUE, list |-> list]
Missing == [present |-> FALSE, list |-> <<>>]

\* Format strings, as code points: csv, CSV, Csv, xlsx, XLSX, json and "".
Formats ==
    {<<99, 115, 118>>, <<67, 83, 86>>, <<67, 115, 118>>,
     <<120, 108, 115, 120>>, <<88, 76, 83, 88>>,
     <<106, 115, 111, 110>>, <<>>}

\* String.prototype.toLowerCase left out.
ToLowerCaseSkipped(s) == s

\* String.prototype.toLowerCase on ASCII text.
ToLowerCase(s) == [i \in 1..Len(s) |-> IF s[i] >= 65 /\ s[i] <= 90 THEN s[i] + 32 ELSE s[i]]

ExportResult(ok, error, clicks, recordCount, filePath) ==
    [ok |-> ok, error |-> error, clicks |-> clicks, recordCount |-> recordCount,
     filePath |-> filePath]

NoPath == [dir |-> "none", job |-> "none", ext |-> <<>>]

\* ExportService.exportData: the promise's outcome and the link.click()
\* calls made on the way.
exportData(items, jobName, outputFormat, outputDir) ==
    IF ~items.present \/ Len(items.list) = 0
    THEN ExportResult(FALSE, "No data to export", 0, 0, NoPath)
    ELSE IF ToLowerCase(outputFormat) \in {<<99, 115, 118>>, <<120, 108, 115, 120>>}
    THEN ExportResult(TRUE, "none", 1, Len(items.list),
                      [dir |-> outputDir, job |-> jobName,
                       ext |-> ToLowerCase(outputFormat)])
    ELSE ExportResult(FALSE, "Unsupported format", 0, 0, NoPath)

\* CloudDatabaseService.saveExecutionHistory: the table afterwards;
\* thrown tells whether it threw "User not authenticated".
saveExecutionHistory(authenticated, jobName, recordCount, filePath, status) ==
    IF ~authenticated
    THEN [thrown |-> TRUE, table |-> execution_history]
    ELSE [thrown |-> FALSE,
          table |-> Append(execution_history,
                           [job_name |-> jobName, record_count |-> recordCount,
                            file_path |-> filePath, status |-> status])]

\* What the load request can come back with: an error, a body without
\* Items, or a list of items.
LoadResults == {[kind |-> "error", items |-> <<>>], [kind |-> "no_items", items |-> <<>>]}
                 \cup {[kind |-> "items", items |-> l] : l \in ItemLists}

SelectedJob == "Staging_Area_Label"
OutputDirectory == "/output"

RunInit ==
    /\ runPc = [at |-> "idle", format |-> <<>>]
    /\ execution_history = <<>>
    /\ runLog = <<>>
    /\ downloads = 0
    /\ lastExport = [called |-> FALSE, items |-> Missing, format |-> <<>>,
                     result |-> ExportResult(FALSE, "none", 0, 0, NoPath)]
    /\ runToast = "none"

\* A caller exports a list of items.
CallExportData ==
    \E items \in {Given(l) : l \in ItemLists} \cup {Missing}, f \in Formats :
        LET res == exportData(items, SelectedJob, f, OutputDirectory)
        IN  /\ downloads < MaxDownloads
            /\ lastExport' = [called |-> TRUE, items |-> items, format |-> f,
                              result |-> res]
            /\ downloads' = downloads + res.clicks
            /\ UNCHANGED <<runPc, execution_history, runLog, runToast>>
            /\ UNCHANGED <<cryptoVars, persistVars, modalVars, apiVars, rlsVars, jobVars, cacheVars, filterVars, pageVars>>

\* handleRunJob returning before any request: no job selected, no API
\* service, or a filter that does not build.
HandleRunJobRefuse ==
    /\ runPc.at = "idle"
    /\ \E t \in {"Cannot Run Job", "API Not Configured", "Filter Error"} :
           runToast' = t
    /\ runToast' # runToast
    /\ UNCHANGED <<runPc, execution_history, runLog, downloads, lastExport>>
    /\ UNCHANGED <<cryptoVars, persistVars, modalVars, apiVars, rlsVars, jobVars, cacheVars, filterVars, pageVars>>

\* handleRunJob up to the await of apiService.loadCollection: the load
\* request is sent.
HandleRunJobLoad ==
    /\ runPc.at = "idle"
    /\ Len(runLog) < MaxRuns
    /\ downloads < MaxDownloads
    /\ \E f \in Formats : runPc' = [at |-> "loading", format |-> f]
    /\ UNCHANGED <<execution_history, runLog, downloads, lastExport, runToast>>
    /\ UNCHANGED <<cryptoVars, persistVars, modalVars, apiVars, rlsVars, jobVars, cacheVars, filterVars, pageVars>>

\* handleRunJob from the response of the load request to its end.
HandleRunJobFinish ==
    /\ runPc.at = "loading"
    /\ \E result \in LoadResults, authenticated \in BOOLEAN :
        LET export == exportData(Given(result.items), SelectedJob, runPc.format,
                                 OutputDirectory)
            onError == saveExecutionHistory(authenticated, SelectedJob, 0, NoPath, "error")
            onSuccess == saveExecutionHistory(authenticated, SelectedJob,
                                              export.recordCount, export.filePath, "success")
            entry(exported) == [exported |-> exported,
                                recordCount |-> IF exported THEN export.recordCount ELSE 0,
                                filePath |-> IF exported THEN export.filePath ELSE NoPath]
        IN  IF result.kind # "items"
            THEN \* throw, caught: the error is saved
                 /\ execution_history' = onError.table
                 /\ runLog' = Append(runLog, entry(FALSE))
                 /\ runToast' = IF onError.thrown THEN runToast ELSE "Export Failed"
                 /\ UNCHANGED <<downloads, lastExport>>
            ELSE IF Len(result.items) = 0
            THEN \* "No Data": return
                 /\ runLog' = Append(runLog, entry(FALSE))
                 /\ runToast' = "No Data"
                 /\ UNCHANGED <<execution_history, downloads, lastExport>>
            ELSE /\ lastExport' = [called |-> TRUE, items |-> Given(result.items),
                                   format |-> runPc.format, result |-> export]
                 /\ downloads' = downloads + export.clicks
                 /\ runLog' = Append(runLog, entry(export.ok))
                 /\ IF export.ok /\ ~onSuccess.thrown
                    THEN /\ execution_history' = onSuccess.table
                         /\ runToast' = "Export Complete!"
                    ELSE \* exportData or saveExecutionHistory threw, caught
                         /\ execution_history' = onError.table
                         /\ runToast' = IF onError.thrown THEN runToast ELSE "Export Failed"
    /\ runPc' = [at |-> "idle", format |-> <<>>]
    /\ UNCHANGED <<cryptoVars, persistVars, modalVars, apiVars, rlsVars, jobVars, cacheVars, filterVars, pageVars>>

ExportNext == CallExportData

RunNext ==
    \/ HandleRunJobRefuse
    \/ HandleRunJobLoad
    \/ HandleRunJobFinish

--------------------------------------------------------------------------
(* ApiService: the cache of distinct values                               *)

\* Strings of this section are sequences of UTF-16 code units.
Underscore == 95
Space == 32
\* cacheDuration * 1000
MsPerSecond == 1000

\* The dropdown fields of the jobs, as (ido_name, field name): a job on IDO
\* O with the field I_L, and a job on IDO O_I with the fields L and I_L
\* (compare OPSIT_Inventory and vend_lot).
DropdownFields ==
    {<<<<79>>, <<73, Underscore, 76>>>>,
     <<<<79, Underscore, 73>>, <<76>>>>,
     <<<<79, Underscore, 73>>, <<73, Underscore, 76>>>>}
IdoNames == {field[1] : field \in DropdownFields}
CacheDurations == {0, 1}

\* `${idoName}_${propertyName}`
cacheKey(idoName, propertyName) == idoName \o <<Underscore>> \o propertyName

\* String.prototype.startsWith
startsWith(s, prefix) ==
    /\ Len(prefix) <= Len(s)
    /\ SubSeq(s, 1, Len(prefix)) = prefix

\* String.prototype.trim left out.
trimSkipped(s) == s

\* String.prototype.trim
trim(s) ==
    LET RECURSIVE TrimStart(_)
        TrimStart(t) ==
            IF t = <<>> THEN t
            ELSE IF Head(t) = Space THEN TrimStart(Tail(t)) ELSE t
        RECURSIVE TrimEnd(_)
        TrimEnd(t) ==
            IF t = <<>> THEN t
            ELSE IF t[Len(t)] = Space THEN TrimEnd(SubSeq(t, 1, Len(t) - 1)) ELSE t
    IN  TrimEnd(TrimStart(s))

\* The order Array.prototype.sort puts strings in: by code units, a proper
\* prefix first.
RECURSIVE StringLess(_, _)
StringLess(a, b) ==
    IF b = <<>> THEN FALSE
    ELSE IF a = <<>> THEN TRUE
    ELSE IF Head(a) # Head(b) THEN Head(a) < Head(b)
    ELSE StringLess(Tail(a), Tail(b))

\* uniqueValues.sort()
RECURSIVE Sort(_)
Sort(list) ==
    LET RECURSIVE InsertSorted(_, _)
        InsertSorted(v, sorted) ==
            IF sorted = <<>> THEN <<v>>
            ELSE IF StringLess(Head(sorted), v)
            THEN <<Head(sorted)>> \o InsertSorted(v, Tail(sorted))
            ELSE <<v>> \o sorted
    IN  IF list = <<>> THEN <<>> ELSE InsertSorted(Head(list), Sort(Tail(list)))

\* A property of a response item: missing, or a string.
Undefined == [defined |-> FALSE, value |-> <<>>]
Str(s) == [defined |-> TRUE, value |-> s]
\* undefined, "", "a", " a" and "b "
RawValues == {Undefined, Str(<<>>), Str(<<97>>), Str(<<Space, 97>>), Str(<<98, Space>>)}

\* The loop over rawValues: a value is pushed unless it is empty or seen.
RECURSIVE Unique(_, _)
Unique(rawValues, uniqueValues) ==
    IF rawValues = <<>> THEN uniqueValues
    ELSE LET value == Head(rawValues)
             seen == {uniqueValues[i] : i \in 1..Len(uniqueValues)}
         IN  Unique(Tail(rawValues),
                    IF value # <<>> /\ value \notin seen
                    THEN Append(uniqueValues, value)
                    ELSE uniqueValues)

\* getDistinctValues from data.Items to the sorted uniqueValues; rawValues
\* is items.map(item => String(item[propertyName] || "").trim()).
uniqueValuesOf(items) ==
    LET rawValues == [i \in 1..Len(items) |->
                        trim(IF items[i].defined /\ items[i].value # <<>>
                             THEN items[i].value ELSE <<>>)]
    IN  Sort(Unique(rawValues, <<>>))

\* What the load request can come back with: a failure, or a body whose
\* Items carry the requested property.
DistinctResponses == {[ok |-> FALSE, items |-> <<>>]}
                       \cup {[ok |-> TRUE, items |-> l] :
                                l \in SeqsUpTo(RawValues, MaxResponseItems)}

\* A Map is a function from its keys; new Map() has none.
EmptyMap == [k \in {} |-> [data |-> <<>>, expiry |-> 0]]
MapSet(m, key, value) == [k \in DOMAIN m \cup {key} |-> IF k = key THEN value ELSE m[k]]

\* JSON.stringify of a record of entries, as its set of members, and
\* JSON.parse back.
JsonStringify(obj) == {<<k, obj[k].data, obj[k].expiry>> : k \in DOMAIN obj}
JsonParse(text) ==
    [k \in {e[1] : e \in text} |->
        LET e == CHOOSE e \in text : e[1] = k
        IN  [data |-> e[2], expiry |-> e[3]]]

\* The test of getDistinctValues with the expiry itself counted as fresh.
cachedAtExpiry(m, key, t) == key \in DOMAIN m /\ t <= m[key].expiry

\* if (cached && Date.now() < cached.expiry)
cached(m, key, t) == key \in DOMAIN m /\ t < m[key].expiry

\* ApiService.loadCache into the map m at time t.
loadCache(m, stored, t) ==
    IF ~stored.present THEN m
    ELSE LET cacheData == JsonParse(stored.text)
             live == {k \in DOMAIN cacheData : cacheData[k].expiry > t}
         IN  [k \in DOMAIN m \cup live |-> IF k \in live THEN cacheData[k] ELSE m[k]]

\* ApiService.saveCache at time t: what localStorage holds afterwards.
saveCache(m, t) ==
    [present |-> TRUE,
     text |-> JsonStringify([k \in {k \in DOMAIN m : m[k].expiry > t} |-> m[k]])]

\* ApiService.clearCacheForIdo: the map afterwards.
clearCacheForIdo(m, idoName) ==
    LET keysToDelete == {key \in DOMAIN m : startsWith(key, idoName \o <<Underscore>>)}
    IN  [k \in DOMAIN m \ keysToDelete |-> m[k]]

NoRequest == [active |-> FALSE, idoName |-> <<>>, propertyName |-> <<>>, cacheDuration |-> 0]

DistinctResult(op, idoName, propertyName, hit, error, values, items) ==
    [called |-> TRUE, op |-> op, idoName |-> idoName, propertyName |-> propertyName,
     hit |-> hit, error |-> error, values |-> values, items |-> items]
NoDistinctResult ==
    [called |-> FALSE, op |-> "none", idoName |-> <<>>, propertyName |-> <<>>,
     hit |-> FALSE, error |-> FALSE, values |-> <<>>, items |-> <<>>]

CacheInit ==
    /\ cache = EmptyMap
    /\ ido_api_cache = [present |-> FALSE, text |-> {}]
    /\ dateNow = 0
    /\ inFlight = NoRequest
    /\ requests = 0
    /\ distinctRet = NoDistinctResult

\* The caller takes its result; the next call comes after that.
TakeDistinctResult ==
    /\ distinctRet.called
    /\ distinctRet' = NoDistinctResult
    /\ UNCHANGED <<cache, ido_api_cache, dateNow, inFlight, requests>>
    /\ UNCHANGED <<cryptoVars, persistVars, modalVars, apiVars, rlsVars, jobVars, runVars, filterVars, pageVars>>

\* Time passes.
CacheTick ==
    /\ ~distinctRet.called
    /\ dateNow < MaxClock * MsPerSecond
    /\ dateNow' = dateNow + MsPerSecond
    /\ UNCHANGED <<cache, ido_api_cache, inFlight, requests, distinctRet>>
    /\ UNCHANGED <<cryptoVars, persistVars, modalVars, apiVars, rlsVars, jobVars, runVars, filterVars, pageVars>>

\* The page is loaded: a new ApiService, whose constructor calls loadCache.
\* A request of the page before is gone with it.
NewApiService ==
    /\ ~distinctRet.called
    /\ cache' = loadCache(EmptyMap, ido_api_cache, dateNow)
    /\ inFlight' = NoRequest
    /\ distinctRet' = DistinctResult("constructor", <<>>, <<>>, FALSE, FALSE, <<>>, <<>>)
    /\ UNCHANGED <<ido_api_cache, dateNow, requests>>
    /\ UNCHANGED <<cryptoVars, persistVars, modalVars, apiVars, rlsVars, jobVars, runVars, filterVars, pageVars>>

\* getDistinctValues returning from the cache.
GetDistinctValuesCached ==
    \E field \in DropdownFields :
        LET idoName == field[1]
            propertyName == field[2]
            key == cacheKey(idoName, propertyName)
        IN  /\ ~distinctRet.called
            /\ cached(cache, key, dateNow)
            /\ distinctRet' = DistinctResult("getDistinctValues", idoName, propertyName,
                                             TRUE, FALSE, cache[key].data, <<>>)
            /\ UNCHANGED <<cache, ido_api_cache, dateNow, inFlight, requests>>
            /\ UNCHANGED <<cryptoVars, persistVars, modalVars, apiVars, rlsVars, jobVars, runVars, filterVars, pageVars>>

\* getDistinctValues past the cache, up to the await of fetch: getAuthHeaders
\* gives an error, which is returned, or the load request is sent.
GetDistinctValuesRequest ==
    \E field \in DropdownFields, cacheDuration \in CacheDurations, authOk \in BOOLEAN :
        LET idoName == field[1]
            propertyName == field[2]
        IN  /\ ~distinctRet.called
            /\ ~inFlight.active
            /\ requests < MaxRequests
            /\ ~cached(cache, cacheKey(idoName, propertyName), dateNow)
            /\ IF authOk
               THEN /\ inFlight' = [active |-> TRUE, idoName |-> idoName,
                                    propertyName |-> propertyName,
                                    cacheDuration |-> cacheDuration]
                    /\ requests' = requests + 1
                    /\ UNCHANGED distinctRet
               ELSE /\ distinctRet' = DistinctResult("getDistinctValues", idoName, propertyName,
                                                     FALSE, TRUE, <<>>, <<>>)
                    /\ UNCHANGED <<inFlight, requests>>
            /\ UNCHANGED <<cache, ido_api_cache, dateNow>>
            /\ UNCHANGED <<cryptoVars, persistVars, modalVars, apiVars, rlsVars, jobVars, runVars, filterVars, pageVars>>

\* getDistinctValues from the response of the load request to its end.
GetDistinctValuesResponse ==
    \E response \in DistinctResponses :
        LET key == cacheKey(inFlight.idoName, inFlight.propertyName)
            uniqueValues == uniqueValuesOf(response.items)
        IN  /\ ~distinctRet.called
            /\ inFlight.active
            /\ inFlight' = NoRequest
            /\ IF response.ok
               THEN /\ cache' = MapSet(cache, key,
                                       [data |-> uniqueValues,
                                        expiry |-> dateNow + inFlight.cacheDuration * MsPerSecond])
                    /\ ido_api_cache' = saveCache(cache', dateNow)
                    /\ distinctRet' = DistinctResult("getDistinctValues", inFlight.idoName,
                                                     inFlight.propertyName, FALSE, FALSE,
                                                     uniqueValues, response.items)
               ELSE /\ distinctRet' = DistinctResult("getDistinctValues", inFlight.idoName,
                                                     inFlight.propertyName, FALSE, TRUE,
                                                     <<>>, <<>>)
                    /\ UNCHANGED <<cache, ido_api_cache>>
            /\ UNCHANGED <<dateNow, requests>>
            /\ UNCHANGED <<cryptoVars, persistVars, modalVars, apiVars, rlsVars, jobVars, runVars, filterVars, pageVars>>

\* ApiService.clearCache
ClearCache ==
    /\ ~distinctRet.called
    /\ cache' = EmptyMap
    /\ ido_api_cache' = [present |-> FALSE, text |-> {}]
    /\ distinctRet' = DistinctResult("clearCache", <<>>, <<>>, FALSE, FALSE, <<>>, <<>>)
    /\ UNCHANGED <<dateNow, inFlight, requests>>
    /\ UNCHANGED <<cryptoVars, persistVars, modalVars, apiVars, rlsVars, jobVars, runVars, filterVars, pageVars>>

\* ApiService.clearCacheForIdo, as refreshDropdowns calls it.
ClearCacheForIdo ==
    \E idoName \in IdoNames :
        /\ ~distinctRet.called
        /\ cache' = clearCacheForIdo(cache, idoName)
        /\ ido_api_cache' = saveCache(cache', dateNow)
        /\ distinctRet' = DistinctResult("clearCacheForIdo", idoName, <<>>, FALSE, FALSE,
                                         <<>>, <<>>)
        /\ UNCHANGED <<dateNow, inFlight, requests>>
        /\ UNCHANGED <<cryptoVars, persistVars, modalVars, apiVars, rlsVars, jobVars, runVars, filterVars, pageVars>>

CacheNext ==
    \/ TakeDistinctResult
    \/ CacheTick
    \/ NewApiService
    \/ GetDistinctValuesCached
    \/ GetDistinctValuesRequest
    \/ GetDistinctValuesResponse
    \/ ClearCache
    \/ ClearCacheForIdo

--------------------------------------------------------------------------
(* FilterUtils.buildFiltersFromValues                                      *)

Apostrophe == 39

\* The filterable fields of a job: Lot (string, =), Qty (number, =) and
\* TransDate (date, >=), with type and operator as code units.
FilterableFields ==
    {[name |-> <<76, 111, 116>>, type |-> <<115, 116, 114, 105, 110, 103>>, operator |-> <<61>>],
     [name |-> <<81, 116, 121>>, type |-> <<110, 117, 109, 98, 101, 114>>, operator |-> <<61>>],
     [name |-> <<84, 114, 97, 110, 115, 68, 97, 116, 101>>, type |-> <<100, 97, 116, 101>>, operator |-> <<62, 61>>]}

\* filterable_fields: lists of different fields.
FieldLists ==
    {l \in SeqsUpTo(FilterableFields, MaxFields) :
        \A i \in 1..Len(l), j \in 1..Len(l) : i # j => l[i] # l[j]}

\* What the user can have typed into a field: "", "  ", "A1", " A1 ",
\* "2024-01-15", "2024-13-45", "24-1-5", "12", "1.50", "12abc", "abc", "-0"
\* and ".5".
TypedValues ==
    {<<>>, <<32, 32>>, <<65, 49>>, <<32, 65, 49, 32>>, <<50, 48, 50, 52, 45, 48, 49, 45, 49, 53>>, <<50, 48, 50, 52, 45, 49, 51, 45, 52, 53>>, <<50, 52, 45, 49, 45, 53>>, <<49, 50>>,
     <<49, 46, 53, 48>>, <<49, 50, 97, 98, 99>>, <<97, 98, 99>>, <<45, 48>>, <<46, 53>>}

\* /^\d{4}-\d{2}-\d{2}$/.test(val)
dateRegexTest(val) ==
    /\ Len(val) = 10
    /\ \A i \in {1, 2, 3, 4, 6, 7, 9, 10} : val[i] \in 48..57
    /\ val[5] = 45 /\ val[8] = 45

\* isNaN(new Date(val).getTime()) for a val that passed the test: the month
\* or the day is out of range.  (A day past the end of a month of fewer than
\* 31 days is not among the typed values.)
dateIsNaN(val) ==
    LET month == (val[6] - 48) * 10 + (val[7] - 48)
        day == (val[9] - 48) * 10 + (val[10] - 48)
    IN  month \notin 1..12 \/ day \notin 1..31

\* A parse that takes any text for a number.
parseAnything(val) == [isNaN |-> FALSE, text |-> val]

\* parseFloat(val) and `${numVal}`: the longest prefix that is a decimal
\* literal (sign, digits, point, digits), and the text of that number.
\* (No typed value has an exponent or spells Infinity.)
parseFloat(val) ==
    LET RECURSIVE TakeDigits(_)
        TakeDigits(s) ==
            IF s # <<>> /\ Head(s) \in 48..57
            THEN <<Head(s)>> \o TakeDigits(Tail(s)) ELSE <<>>
        RECURSIVE DropLeadingZeros(_)
        DropLeadingZeros(d) ==
            IF Len(d) > 1 /\ Head(d) = 48 THEN DropLeadingZeros(Tail(d)) ELSE d
        RECURSIVE DropTrailingZeros(_)
        DropTrailingZeros(d) ==
            IF d # <<>> /\ d[Len(d)] = 48
            THEN DropTrailingZeros(SubSeq(d, 1, Len(d) - 1)) ELSE d
        signed == val # <<>> /\ Head(val) \in {43, 45}
        body == IF signed THEN Tail(val) ELSE val
        int == TakeDigits(body)
        rest == SubSeq(body, Len(int) + 1, Len(body))
        frac == IF rest # <<>> /\ Head(rest) = 46 THEN TakeDigits(Tail(rest)) ELSE <<>>
        i == DropLeadingZeros(IF int = <<>> THEN <<48>> ELSE int)
        f == DropTrailingZeros(frac)
        zero == i = <<48>> /\ f = <<>>
    IN  IF int = <<>> /\ frac = <<>>
        THEN [isNaN |-> TRUE, text |-> <<78, 97, 78>>]
        ELSE [isNaN |-> FALSE,
              text |-> (IF signed /\ Head(val) = 45 /\ ~zero THEN <<45>> ELSE <<>>)
                         \o i \o (IF f = <<>> THEN <<>> ELSE <<46>> \o f)]

\* The value put into the clause as it is.
unquoted(val) == val

\* '${val}'
quoted(val) == <<Apostrophe>> \o val \o <<Apostrophe>>

\* filters.join(" AND ")
RECURSIVE join(_)
join(filters) ==
    IF filters = <<>> THEN <<>>
    ELSE IF Len(filters) = 1 THEN filters[1]
    ELSE filters[1] \o <<32, 65, 78, 68, 32>> \o join(Tail(filters))

FilterResult(filter, error, field) == [filter |-> filter, error |-> error, field |-> field]

\* The loop of buildFiltersFromValues over the fields left, with the
\* filters pushed so far.
RECURSIVE BuildFilters(_, _, _)
BuildFilters(fields, values, filters) ==
    IF fields = <<>> THEN FilterResult(join(filters), "none", <<>>)
    ELSE LET field == fields[1]
             entry == IF field.name \in DOMAIN values THEN values[field.name] ELSE Undefined
             val == IF entry.defined THEN trim(entry.value) ELSE <<>>
             \* filters.push(`${field.name} ${field.operator} ${text}`)
             more(text) ==
                 BuildFilters(Tail(fields), values,
                              Append(filters, field.name \o <<Space>> \o field.operator
                                                \o <<Space>> \o text))
         IN  IF val = <<>> THEN BuildFilters(Tail(fields), values, filters)
             ELSE IF field.type = <<100, 97, 116, 101>>
             THEN IF ~dateRegexTest(val)
                  THEN FilterResult(<<>>, "Invalid date format", field.name)
                  ELSE IF dateIsNaN(val)
                  THEN FilterResult(<<>>, "Invalid date", field.name)
                  ELSE more(quoted(val))
             ELSE IF field.type = <<110, 117, 109, 98, 101, 114>>
             THEN IF parseFloat(val).isNaN
                  THEN FilterResult(<<>>, "Invalid number", field.name)
                  ELSE more(parseFloat(val).text)
             ELSE more(quoted(val))

\* FilterUtils.buildFiltersFromValues
buildFiltersFromValues(filterableFields, values) == BuildFilters(filterableFields, values, <<>>)

FilterInit ==
    lastFilter = [called |-> FALSE, fields |-> <<>>, values |-> <<>>,
                  result |-> FilterResult(<<>>, "none", <<>>)]

\* A caller builds the filter of a job from what was typed, once: every
\* field of the job has a string or no entry in the values.
CallBuildFilters ==
    \E fields \in FieldLists :
        \E values \in [{fields[i].name : i \in 1..Len(fields)} ->
                          {Undefined} \cup {Str(v) : v \in TypedValues}] :
            /\ ~lastFilter.called
            /\ lastFilter' = [called |-> TRUE, fields |-> fields, values |-> values,
                              result |-> buildFiltersFromValues(fields, values)]
            /\ UNCHANGED <<cryptoVars, persistVars, modalVars, apiVars, rlsVars, jobVars, runVars, cacheVars, pageVars>>

FilterNext == CallBuildFilters

--------------------------------------------------------------------------
(* The job page: handleRunJob with its filter and its column patching      *)

\* selectedJob.filterable_fields: Qty (number) and TransDate (date).
PageFields ==
    <<[name |-> <<81, 116, 121>>, type |-> <<110, 117, 109, 98, 101, 114>>, operator |-> <<61>>],
      [name |-> <<84, 114, 97, 110, 115, 68, 97, 116, 101>>, type |-> <<100, 97, 116, 101>>, operator |-> <<62, 61>>]>>
\* What is typed into the filter panel: "", "12", "abc", " 2024-01-15" and
\* "24-1-5".
PageTypedValues == {<<>>, <<49, 50>>, <<97, 98, 99>>, <<32, 50, 48, 50, 52, 45, 48, 49, 45, 49, 53>>, <<50, 52, 45, 49, 45, 53>>}
\* Column names typed into the two name boxes: "", " ", "X", " X " and "Y".
ColumnNames == {<<>>, <<32>>, <<88>>, <<32, 88, 32>>, <<89>>}
\* The records of a response: column X with one value or another.
PageRows == {[k \in {<<88>>} |-> v] : v \in {"a", "b"}}
\* What loadCollection can come back with: an error, a body without Items,
\* or a list of records.
PageLoadResults == {[kind |-> "error", items |-> <<>>], [kind |-> "no_items", items |-> <<>>]}
                     \cup {[kind |-> "items", items |-> l] : l \in SeqsUpTo(PageRows, MaxItems)}

\* items.map(item => ({...item, [newColumnName.trim()]: newColumnValue}))
\* under its condition.
addCustomColumn(items, p) ==
    IF p.addColumn /\ trim(p.newColumnName) # <<>>
    THEN [i \in 1..Len(items) |-> MapSet(items[i], trim(p.newColumnName), p.newColumnValue)]
    ELSE items

\* items.map(item => ({...item, [modifyColumnName.trim()]: modifyColumnValue}))
\* under its condition.
modifyExistingColumn(items, p) ==
    IF p.modifyColumn /\ trim(p.modifyColumnName) # <<>>
    THEN [i \in 1..Len(items) |-> MapSet(items[i], trim(p.modifyColumnName), p.modifyColumnValue)]
    ELSE items

\* The two steps the other way round.
patchColumnsModifyFirst(items, p) == addCustomColumn(modifyExistingColumn(items, p), p)

\* The two steps of handleRunJob between the response and the export.
patchColumns(items, p) == modifyExistingColumn(addCustomColumn(items, p), p)

NoRun == [ran |-> FALSE, sent |-> FALSE, items |-> <<>>, exported |-> Missing,
          recordCount |-> 0, toast |-> "none"]
RunOutcome(sent, items, exported, recordCount, title) ==
    [ran |-> TRUE, sent |-> sent, items |-> items, exported |-> exported,
     recordCount |-> recordCount, toast |-> title]

PageInit ==
    /\ isRunning = FALSE
    /\ filterValues = [n \in {PageFields[i].name : i \in 1..Len(PageFields)} |-> Undefined]
    /\ patch = [addColumn |-> FALSE, newColumnName |-> <<>>, newColumnValue |-> "",
                modifyColumn |-> FALSE, modifyColumnName |-> <<>>, modifyColumnValue |-> ""]
    /\ pagePc = [at |-> "idle", filter |-> <<>>]
    /\ pageLog = NoRun

\* Nothing runs and the outcome of the last run has been looked at: the
\* form is edited and the job is run between runs.
PageIdle == pagePc.at = "idle" /\ ~pageLog.ran

\* handleFilterChange: a value is typed into a field of the filter panel.
HandleFilterChange ==
    \E name \in DOMAIN filterValues, value \in PageTypedValues :
        /\ PageIdle
        /\ filterValues' = [filterValues EXCEPT ![name] = Str(value)]
        /\ filterValues' # filterValues
        /\ UNCHANGED <<isRunning, patch, pagePc, pageLog>>
        /\ UNCHANGED <<cryptoVars, persistVars, modalVars, apiVars, rlsVars, jobVars, runVars, cacheVars, filterVars>>

\* One of the switches is flipped, or a name or a value is typed into one
\* of the boxes of the column card.
ChangeColumnPatch ==
    /\ PageIdle
    /\ \/ patch' = [patch EXCEPT !.addColumn = ~patch.addColumn]
       \/ patch' = [patch EXCEPT !.modifyColumn = ~patch.modifyColumn]
       \/ \E n \in ColumnNames : patch' = [patch EXCEPT !.newColumnName = n]
       \/ \E n \in ColumnNames : patch' = [patch EXCEPT !.modifyColumnName = n]
       \/ \E v \in {"", "new"} : patch' = [patch EXCEPT !.newColumnValue = v]
       \/ \E v \in {"", "mod"} : patch' = [patch EXCEPT !.modifyColumnValue = v]
    /\ patch' # patch
    /\ UNCHANGED <<isRunning, filterValues, pagePc, pageLog>>
    /\ UNCHANGED <<cryptoVars, persistVars, modalVars, apiVars, rlsVars, jobVars, runVars, cacheVars, filterVars>>

\* The outcome of the last run is looked at.
DismissOutcome ==
    /\ pageLog.ran
    /\ pagePc.at = "idle"
    /\ pageLog' = NoRun
    /\ UNCHANGED <<isRunning, filterValues, patch, pagePc>>
    /\ UNCHANGED <<cryptoVars, persistVars, modalVars, apiVars, rlsVars, jobVars, runVars, cacheVars, filterVars>>

\* handleRunJob from the click to its return on a filter error, or to the
\* await of apiService.loadCollection.
HandleRunJobStart ==
    LET filterResult == buildFiltersFromValues(PageFields, filterValues)
    IN  /\ PageIdle
        /\ ~isRunning
        /\ IF filterResult.error # "none"
           THEN \* toast "Filter Error", return; finally setIsRunning(false)
                /\ isRunning' = FALSE
                /\ pageLog' = RunOutcome(FALSE, <<>>, Missing, 0, "Filter Error")
                /\ UNCHANGED pagePc
           ELSE /\ isRunning' = TRUE
                /\ pagePc' = [at |-> "loading", filter |-> filterResult.filter]
                /\ UNCHANGED pageLog
        /\ UNCHANGED <<filterValues, patch>>
        /\ UNCHANGED <<cryptoVars, persistVars, modalVars, apiVars, rlsVars, jobVars, runVars, cacheVars, filterVars>>

\* handleRunJob from the response of loadCollection to its end.
HandleRunJobEnd ==
    \E result \in PageLoadResults :
        LET items == patchColumns(result.items, patch)
            exportResult == exportData(Given(items), SelectedJob, <<99, 115, 118>>,
                                       OutputDirectory)
        IN  /\ pagePc.at = "loading"
            /\ pageLog' =
                 IF result.kind # "items"
                 THEN RunOutcome(TRUE, <<>>, Missing, 0, "Export Failed")
                 ELSE IF Len(result.items) = 0
                 THEN RunOutcome(TRUE, result.items, Missing, 0, "No Data")
                 ELSE RunOutcome(TRUE, result.items, Given(items),
                                 exportResult.recordCount, "Export Complete!")
            /\ pagePc' = [at |-> "idle", filter |-> <<>>]
            /\ isRunning' = FALSE
            /\ UNCHANGED <<filterValues, patch>>
            /\ UNCHANGED <<cryptoVars, persistVars, modalVars, apiVars, rlsVars, jobVars, runVars, cacheVars, filterVars>>

PageNext ==
    \/ HandleFilterChange
    \/ ChangeColumnPatch
    \/ DismissOutcome
    \/ HandleRunJobStart
    \/ HandleRunJobEnd

--------------------------------------------------------------------------
(* Specifications                                                          *)

Init ==
    /\ CryptoInit /\ PersistInit /\ ModalInit /\ ApiInit
    /\ RlsInit /\ JobInit /\ RunInit /\ CacheInit
    /\ FilterInit /\ PageInit

\* EncryptionService alone
SpecCrypto == Init /\ [][CryptoNext]_vars

\* the services that persist credentials, called in any order
SpecPersist == Init /\ [][PersistNext]_vars

\* the configuration modal over the database, with the session changing
SpecModal == Init /\ [][ModalNext]_vars

\* one ApiService instance with concurrent callers
SpecApi == Init /\ [][ApiNext]_vars

\* clients of the database under its row-level security
SpecRls == Init /\ [][RlsNext]_vars

\* DatabaseJobService called by the signed-in users
SpecJobs == Init /\ [][JobNext]_vars

\* ExportService.exportData alone
SpecExport == Init /\ [][ExportNext]_vars

\* handleRunJob
SpecRun == Init /\ [][RunNext]_vars

\* one page after another over the same localStorage, each with its ApiService
SpecCache == Init /\ [][CacheNext]_vars

\* FilterUtils.buildFiltersFromValues alone
SpecFilter == Init /\ [][FilterNext]_vars

\* the job page: the filter panel, the column card and the Run button
SpecPage == Init /\ [][PageNext]_vars

--------------------------------------------------------------------------
(* The claims                                                              *)

\* C1: no persisted value holds a password in plaintext.
C1_OnlyCiphertext == \A v \in PersistedValues : ~HoldsPlaintextPassword(v)

\* Every value the three services wrote (the seeded row aside) is cipher
\* text or the JSON of cipher text.
ServicesWriteCiphertext ==
    \A v \in PersistedValues \ {SeedApiConfigRow.encrypted_config} :
        ~HoldsPlaintextPassword(v)

\* C2: decrypting what encrypt returned gives the data back under the same
\* password, and fails, returning no plaintext, under any other password.
C2_RoundTrip ==
    decArgs.called =>
        IF decArgs.password = encArgs.password
        THEN decOut = [ok |-> TRUE, data |-> encArgs.data]
        ELSE decOut = [ok |-> FALSE]

\* C2 witness: a non-empty text with a two-byte character and a byte below
\* 16 came back from decrypt under the right password.
C2_Witness ==
    /\ decArgs.called
    /\ decArgs.password = encArgs.password
    /\ decOut.ok
    /\ decOut.data = <<233, 10>>

\* C2 witness for the other half: a wrong password was rejected.
C2_WitnessWrong ==
    /\ decArgs.called
    /\ decArgs.password # encArgs.password
    /\ ~decOut.ok

C4_OwnRowsOnly ==
    (lastOp.called /\ lastOp.table \in UserTables)
    => /\ \A r \in lastOp.old \cup lastOp.new : r.user_id = lastOp.user
       /\ \A r \in lastOp.read :
            \/ r.user_id = lastOp.user
            \/ lastOp.table = "jobs" /\ r.is_template /\ r.is_shared
            \/ /\ lastOp.table = "export_data"
               /\ r.is_shared
               /\ (r.expires_at = NullTime \/ r.expires_at > lastOp.at)

\* a user has read a shared export of another user
C4_Witness ==
    /\ lastOp.called /\ lastOp.table = "export_data" /\ lastOp.cmd = "SELECT"
    /\ \E r \in lastOp.read : r.user_id # lastOp.user /\ r.expires_at # NullTime

\* C5: a statement that writes, replaces or removes a global_config row is
\* an admin's, and getPublicConfigs of a non-admin returns exactly the rows
\* with is_public = true.
C5_GlobalConfigAccess ==
    /\ (lastOp.called /\ lastOp.table = "global_config"
            /\ lastOp.old \cup lastOp.new # {})
       => IsAdmin(lastOp.user)
    /\ (publicConfigs.called /\ ~IsAdmin(publicConfigs.user))
       => publicConfigs.rows = {r \in db["global_config"] : r.is_public}

C7_CompleteAuditTrail ==
    runPc.at = "idle"
    => /\ Len(execution_history) = Len(runLog)
       /\ \A i \in 1..Len(execution_history) :
            IF runLog[i].exported
            THEN /\ execution_history[i].status = "success"
                 /\ execution_history[i].record_count = runLog[i].recordCount
                 /\ execution_history[i].file_path = runLog[i].filePath
            ELSE /\ execution_history[i].status = "error"
                 /\ execution_history[i].record_count = 0

\* word in any letter case
AnyCaseOf(word, f) ==
    /\ Len(f) = Len(word)
    /\ \A i \in 1..Len(word) : f[i] = word[i] \/ f[i] = word[i] - 32

\* C8: exportData clicks one download link and returns the number of items
\* for a non-empty list and csv or xlsx in any letter case; it fails with
\* 'No data to export' for an empty or missing list and with 'Unsupported
\* format' for another format, without a download.
C8_ExportDataContract ==
    lastExport.called
    => LET res == lastExport.result
           list == lastExport.items.list
       IN  IF ~lastExport.items.present \/ list = <<>>
           THEN ~res.ok /\ res.error = "No data to export" /\ res.clicks = 0
           ELSE IF \/ AnyCaseOf(<<99, 115, 118>>, lastExport.format)
                   \/ AnyCaseOf(<<120, 108, 115, 120>>, lastExport.format)
           THEN res.ok /\ res.clicks = 1 /\ res.recordCount = Len(list)
           ELSE ~res.ok /\ res.error = "Unsupported format" /\ res.clicks = 0

\* two items exported as "Csv"
C8_Witness ==
    /\ lastExport.called
    /\ lastExport.format = <<67, 115, 118>>
    /\ lastExport.result.ok
    /\ lastExport.result.recordCount = 2
    /\ downloads > 0

\* C9: after an admin's toggleUserStatus on another user's profile the
\* stored is_active is the inverse of what it was, and the success message
\* is shown only if the stored value changed.
C9_ToggleInverts ==
    (lastToggle.called /\ lastToggle.userId # lastToggle.user)
    => /\ lastToggle.after = {~b : b \in lastToggle.before}
       /\ lastToggle.toast = "Success" => lastToggle.after # lastToggle.before

\* C10: when the duplicate dialog was answered with "Use Existing
\* Configuration" and the form's encryption password opens the reported
\* configuration, the form holds that configuration's values.
C10_UseExistingLoads ==
    (useExisting.called
        /\ decrypt(useExisting.row.encrypted_data, useExisting.row.salt,
                   useExisting.row.iv, useExisting.password).ok)
    => /\ toast = "Configuration Loaded"
       /\ config.password =
              Parse(decrypt(useExisting.row.encrypted_data, useExisting.row.salt,
                            useExisting.row.iv, useExisting.password).data).password

--------------------------------------------------------------------------
\* The keys of the dropdown fields of an IDO.
KeysOfIdo(idoName) ==
    {cacheKey(field[1], field[2]) : field \in {f \in DropdownFields : f[1] = idoName}}
StoredKeys(stored) == {e[1] : e \in stored.text}
Spaces(n) == [i \in 1..n |-> Space]
\* v is s without the white space at its ends.
IsTrimOf(v, s) ==
    /\ v # <<>> => v[1] # Space /\ v[Len(v)] # Space
    /\ \E i \in 0..Len(s), j \in 0..Len(s) : s = Spaces(i) \o v \o Spaces(j)

\* C11: getDistinctValues returns a cached list only while the current time
\* is before the entry's expiry, and a call that does so sends no HTTP
\* request; an entry whose expiry has passed is not returned, is not loaded
\* from localStorage["ido_api_cache"] by the constructor and is not in what
\* a write to localStorage["ido_api_cache"] stores.
C11_OnlyFreshEntries ==
    /\ [](distinctRet.hit =>
            LET key == cacheKey(distinctRet.idoName, distinctRet.propertyName)
            IN  /\ key \in DOMAIN cache
                /\ dateNow < cache[key].expiry
                /\ distinctRet.values = cache[key].data)
    /\ [](distinctRet.op = "constructor" =>
            \A k \in DOMAIN cache : dateNow < cache[k].expiry)
    /\ [][/\ distinctRet'.hit => inFlight' = inFlight /\ requests' = requests
          /\ (ido_api_cache' # ido_api_cache /\ ido_api_cache'.present) =>
                \A e \in ido_api_cache'.text : dateNow' < e[3]]_vars

\* A call is answered from the cache while another entry of the cache has
\* expired and is not in localStorage.
C11_Witness ==
    /\ distinctRet.hit
    /\ \E k \in DOMAIN cache :
           /\ cache[k].expiry <= dateNow
           /\ k \notin StoredKeys(ido_api_cache)

\* C12: when the load request succeeds, getDistinctValues returns the
\* trimmed property values of the response items that are not empty, each
\* once and in ascending order, and the cache holds that list under the key
\* of (idoName, propertyName) with the expiry Date.now() plus cacheDuration
\* seconds.
C12_FetchedValuesStored ==
    [][(/\ inFlight.active
        /\ distinctRet'.called
        /\ distinctRet'.op = "getDistinctValues"
        /\ ~distinctRet'.hit
        /\ ~distinctRet'.error) =>
            LET values == distinctRet'.values
                items == distinctRet'.items
                key == cacheKey(inFlight.idoName, inFlight.propertyName)
                given == {i \in 1..Len(items) : items[i].defined}
            IN  /\ \A i \in 1..Len(values) :
                       /\ values[i] # <<>>
                       /\ \E n \in given : IsTrimOf(values[i], items[n].value)
                /\ \A n \in given :
                       \/ IsTrimOf(<<>>, items[n].value)
                       \/ \E i \in 1..Len(values) : IsTrimOf(values[i], items[n].value)
                /\ \A i \in 1..Len(values), j \in 1..Len(values) :
                       i < j => StringLess(values[i], values[j])
                /\ key \in DOMAIN cache'
                /\ cache'[key] = [data |-> values,
                                  expiry |-> dateNow' + inFlight.cacheDuration * MsPerSecond]]_vars

\* A response with white space, an empty value, a value twice and values out
\* of order has been turned into two values.
C12_Witness ==
    /\ distinctRet.called /\ distinctRet.op = "getDistinctValues"
    /\ ~distinctRet.hit /\ ~distinctRet.error
    /\ Len(distinctRet.values) = 2
    /\ \E i \in 1..Len(distinctRet.items) :
           distinctRet.items[i].defined /\ Space \in {distinctRet.items[i].value[n] :
                                                         n \in 1..Len(distinctRet.items[i].value)}
    /\ distinctRet.items[1].defined
    /\ StringLess(<<97>>, distinctRet.items[1].value)

\* C13: clearCacheForIdo(idoName) leaves no entry of that IDO in the cache
\* or in localStorage and leaves every unexpired entry of every other IDO as
\* it was in both; no entry of the cache is the entry of two different
\* (idoName, propertyName) pairs.
C13_ClearsOneIdoOnly ==
    /\ [](\A p \in DropdownFields, q \in DropdownFields :
            (p # q /\ cacheKey(p[1], p[2]) \in DOMAIN cache)
                => cacheKey(p[1], p[2]) # cacheKey(q[1], q[2]))
    /\ [][(distinctRet'.called /\ distinctRet'.op = "clearCacheForIdo") =>
            LET idoName == distinctRet'.idoName
                others == UNION {KeysOfIdo(i) : i \in IdoNames \ {idoName}}
                before == JsonParse(ido_api_cache.text)
                after == JsonParse(ido_api_cache'.text)
            IN  /\ \A k \in KeysOfIdo(idoName) :
                       k \notin DOMAIN cache' /\ k \notin DOMAIN after
                /\ \A k \in others :
                       /\ (k \in DOMAIN cache /\ dateNow < cache[k].expiry)
                              => (k \in DOMAIN cache' /\ cache'[k] = cache[k])
                       /\ (k \in DOMAIN before /\ dateNow < before[k].expiry)
                              => (k \in DOMAIN after /\ after[k] = before[k])]_vars

\* The fields of the last call whose value, trimmed, is not empty.
FieldsWithValue ==
    SelectSeq(lastFilter.fields,
              LAMBDA f : /\ lastFilter.values[f.name].defined
                         /\ ~IsTrimOf(<<>>, lastFilter.values[f.name].value))
\* The value typed for a field passes the validation of its type.
TypedValueValid(f) ==
    LET val == trim(lastFilter.values[f.name].value)
    IN  /\ f.type = <<100, 97, 116, 101>> => dateRegexTest(val) /\ ~dateIsNaN(val)
        /\ f.type = <<110, 117, 109, 98, 101, 114>> => ~parseFloat(val).isNaN
\* text is the clause of field f for the value typed: name, operator and
\* the trimmed value in single quotes, or for a number something without
\* quotes.
IsClauseOf(text, f) ==
    LET head == f.name \o <<Space>> \o f.operator \o <<Space>>
        tail == SubSeq(text, Len(head) + 1, Len(text))
    IN  /\ Len(text) > Len(head)
        /\ SubSeq(text, 1, Len(head)) = head
        /\ IF f.type = <<110, 117, 109, 98, 101, 114>>
           THEN \A i \in 1..Len(tail) : tail[i] # Apostrophe
           ELSE /\ Len(tail) >= 2
                /\ tail[1] = Apostrophe /\ tail[Len(tail)] = Apostrophe
                /\ IsTrimOf(SubSeq(tail, 2, Len(tail) - 1), lastFilter.values[f.name].value)
\* filter is the clauses of the fields, in order, with " AND " between.
RECURSIVE IsClausesOf(_, _)
IsClausesOf(filter, fields) ==
    IF fields = <<>> THEN filter = <<>>
    ELSE \E n \in 1..Len(filter) :
            /\ IsClauseOf(SubSeq(filter, 1, n), fields[1])
            /\ IF Len(fields) = 1 THEN n = Len(filter)
               ELSE /\ Len(filter) >= n + 5
                    /\ SubSeq(filter, n + 1, n + 5) = <<32, 65, 78, 68, 32>>
                    /\ IsClausesOf(SubSeq(filter, n + 6, Len(filter)), Tail(fields))

\* C14: when every value that is not empty is valid, buildFiltersFromValues
\* returns no error and a filter made of one clause for every field whose
\* trimmed value is not empty, in the order of the fields, joined by " AND ",
\* the value of a date or string field in single quotes and that of a number
\* field without; fields left empty or blank add nothing, and with no value
\* at all the filter is the empty string.
C14_FilterFromValidValues ==
    (/\ lastFilter.called
     /\ \A i \in 1..Len(FieldsWithValue) : TypedValueValid(FieldsWithValue[i]))
        => /\ lastFilter.result.error = "none"
           /\ IsClausesOf(lastFilter.result.filter, FieldsWithValue)
           /\ FieldsWithValue = <<>> => lastFilter.result.filter = <<>>

\* A date field and a number field both carry valid values, with white space
\* around one of them, and a filter of two clauses came back.
C14_Witness ==
    /\ lastFilter.called
    /\ Len(lastFilter.fields) = 2
    /\ Len(FieldsWithValue) = 2
    /\ \A i \in 1..2 : TypedValueValid(lastFilter.fields[i])
    /\ \E i \in 1..2 : lastFilter.fields[i].type = <<100, 97, 116, 101>>
    /\ \E i \in 1..2 : lastFilter.fields[i].type = <<110, 117, 109, 98, 101, 114>>
    /\ lastFilter.result.filter # <<>>

\* What is typed for a page field, without the white space at its ends.
TrimmedTyped(name) ==
    LET raw == filterValues[name].value
        solid == {n \in 1..Len(raw) : raw[n] # Space}
        first == CHOOSE n \in solid : \A m \in solid : n <= m
        last == CHOOSE n \in solid : \A m \in solid : m <= n
    IN  IF solid = {} THEN <<>> ELSE SubSeq(raw, first, last)
\* v has the form YYYY-MM-DD.
InDateForm(v) ==
    /\ Len(v) = 10
    /\ \A i \in 1..10 : IF i \in {5, 8} THEN v[i] = 45 ELSE v[i] \in 48..57
\* v starts with a decimal number: digits, or a point and a digit, after an
\* optional sign.
StartsWithNumber(v) ==
    LET u == IF v # <<>> /\ v[1] \in {43, 45} THEN Tail(v) ELSE v
    IN  /\ u # <<>>
        /\ \/ u[1] \in 48..57
           \/ Len(u) >= 2 /\ u[1] = 46 /\ u[2] \in 48..57
\* Some field of the page holds a date that is not in YYYY-MM-DD form or a
\* number that does not parse.
SomeValueInvalid ==
    \E i \in 1..Len(PageFields) :
        LET f == PageFields[i]
        IN  /\ filterValues[f.name].defined
            /\ TrimmedTyped(f.name) # <<>>
            /\ \/ f.type = <<100, 97, 116, 101>> /\ ~InDateForm(TrimmedTyped(f.name))
               \/ f.type = <<110, 117, 109, 98, 101, 114>>
                    /\ ~StartsWithNumber(TrimmedTyped(f.name))

\* C15: when a date value that is not empty is not in YYYY-MM-DD form, or a
\* number value that is not empty does not parse, buildFiltersFromValues
\* returns an error with the empty filter; handleRunJob run on such values
\* ends with the "Filter Error" toast, without a request to the API, without
\* an export and with isRunning false, and no request is ever in flight for
\* such values.
C15_FilterErrorStopsRun ==
    /\ [](SomeValueInvalid =>
            /\ buildFiltersFromValues(PageFields, filterValues).error # "none"
            /\ buildFiltersFromValues(PageFields, filterValues).filter = <<>>
            /\ pagePc.at # "loading")
    /\ [][(/\ SomeValueInvalid
           /\ ~pageLog.ran
           /\ pageLog'.ran \/ pagePc'.at = "loading") =>
                /\ pageLog'.ran
                /\ pageLog'.toast = "Filter Error"
                /\ ~pageLog'.sent
                /\ ~pageLog'.exported.present
                /\ pagePc'.at = "idle"
                /\ isRunning' = FALSE]_vars

\* The job was run with an unparsable number typed and stopped with the
\* filter error.
C15_Witness ==
    /\ SomeValueInvalid
    /\ filterValues[<<81, 116, 121>>].defined
    /\ ~StartsWithNumber(TrimmedTyped(<<81, 116, 121>>))
    /\ pageLog.ran
    /\ pageLog.toast = "Filter Error"

\* The add step, the modify step: switched on and with a name that is not
\* blank.
AddStepOn == patch.addColumn /\ ~IsTrimOf(<<>>, patch.newColumnName)
ModifyStepOn == patch.modifyColumn /\ ~IsTrimOf(<<>>, patch.modifyColumnName)
\* Record out is record in with at most the column typed as name set to value.
OnlyColumnSet(out, in, name, value) ==
    /\ DOMAIN in \subseteq DOMAIN out
    /\ \A k \in DOMAIN out :
           \/ IsTrimOf(k, name) /\ out[k] = value
           \/ k \in DOMAIN in /\ out[k] = in[k]
    /\ \E k \in DOMAIN out : IsTrimOf(k, name) /\ out[k] = value

\* C16: the records handed to the export are as many as the records of the
\* response; with both steps on and naming the same column every record
\* carries the modify value in it; a step that is switched off or has a
\* blank name changes nothing.
C16_ColumnPatching ==
    (pageLog.ran /\ pageLog.exported.present) =>
        LET in == pageLog.items
            out == pageLog.exported.list
        IN  /\ Len(out) = Len(in)
            /\ pageLog.recordCount = Len(in)
            /\ (AddStepOn /\ ModifyStepOn) =>
                   \A k \in ColumnNames :
                       (IsTrimOf(k, patch.newColumnName) /\ IsTrimOf(k, patch.modifyColumnName))
                           => \A i \in 1..Len(out) :
                                  k \in DOMAIN out[i] /\ out[i][k] = patch.modifyColumnValue
            /\ (~AddStepOn /\ ~ModifyStepOn) => out = in
            /\ (AddStepOn /\ ~ModifyStepOn) =>
                   \A i \in 1..Len(out) :
                       OnlyColumnSet(out[i], in[i], patch.newColumnName, patch.newColumnValue)
            /\ (~AddStepOn /\ ModifyStepOn) =>
                   \A i \in 1..Len(out) :
                       OnlyColumnSet(out[i], in[i], patch.modifyColumnName,
                                     patch.modifyColumnValue)

\* Two records were exported with both steps on and both naming column X,
\* one name typed with white space around it.
C16_Witness ==
    /\ pageLog.ran /\ pageLog.exported.present
    /\ Len(pageLog.items) = 2
    /\ AddStepOn /\ ModifyStepOn
    /\ patch.newColumnValue # patch.modifyColumnValue
    /\ patch.newColumnName # patch.modifyColumnName
    /\ IsTrimOf(<<88>>, patch.newColumnName)
    /\ IsTrimOf(<<88>>, patch.modifyColumnName)

==========================================================================
